---- MODULE Spec2Model ----
(***************************************************************************)
(* Storage layer (MemStorage, DatabaseStorage) and REST handlers of the    *)
(* Sacco application, as a state machine.                                  *)
(*                                                                         *)
(* mem  : the fields of one MemStorage object                              *)
(* db   : the committed tables and serial sequences of the relational      *)
(*        store behind DatabaseStorage                                     *)
(* last : the storage call or request handled last, with what each store   *)
(*        returned                                                         *)
(* now  : the wall clock read by new Date() / defaultNow()                 *)
(* tx   : the transaction of a DatabaseStorage.addVote call that is between *)
(*        its two statements                                                *)
(* reqs : the requests and storage calls that are between two awaits        *)
(* client : the operation of the client's SaccoContext that is running, its *)
(*        isLoading flag and the backend writes it has sent                 *)
(***************************************************************************)
EXTENDS Integers, Sequences, FiniteSets, TLC

VARIABLES mem, db, last, now, tx, reqs, client

vars == <<mem, db, last, now, tx, reqs, client>>

----------------------------------------------------------------------------
(* Bounds of the model *)

MaxUsers == 3
MaxGroups == 2
MaxMembers == 3
MaxProposals == 2
MaxVotes == 2
MaxLoans == 2
MaxGuarantors == 2
MaxActs == 2
MaxTime == 2
MaxRecords == 4
MaxRequests == 2
MaxJoinRecords == 5

----------------------------------------------------------------------------
(* Values *)

\* A nullable integer column that holds no value (also falsy in `user.groupId`)
Null == 0

\* Addresses are character sequences; the letters come in both cases
Addresses == { <<"0", "a">>, <<"0", "A">>, <<"0", "b">>, <<"0", "B">> }

\* String.prototype.toLowerCase, character by character
LowerChar(c) ==
  CASE c = "A" -> "a"
    [] c = "B" -> "b"
    [] OTHER -> c

ToLowerCase(s) == [i \in DOMAIN s |-> LowerChar(s[i])]

CaseVariants(a) == { x \in Addresses : ToLowerCase(x) = ToLowerCase(a) }

\* A request field that was left out where the code reads an address
UndefinedAddress == <<"undefined">>

\* What a storage call hands back: a value, undefined, or a thrown error
Ok(v) == [kind |-> "ok", val |-> v]
Undefined == [kind |-> "undefined"]
Throws == [kind |-> "throw"]

\* Map.set / Map.get of a JavaScript Map held as a function
EmptyMap == [k \in {} |-> k]
MapSet(m, k, v) == [x \in (DOMAIN m) \cup {k} |-> IF x = k THEN v ELSE m[x]]
MapHas(m, k) == k \in DOMAIN m
\* `map.get(k) || []`
GetOrEmpty(m, k) == IF k \in DOMAIN m THEN m[k] ELSE <<>>

\* Object spread { ...rec, ...data } for data whose fields are fields of rec
Spread(rec, data) ==
  [f \in DOMAIN rec |-> IF f \in DOMAIN data THEN data[f] ELSE rec[f]]

----------------------------------------------------------------------------
(* State after construction *)

MemInit ==
  [ users |-> EmptyMap, groups |-> EmptyMap, groupMembers |-> EmptyMap,
    loans |-> EmptyMap, loansByBorrower |-> EmptyMap, guarantors |-> EmptyMap,
    proposals |-> EmptyMap, proposalsByGroup |-> EmptyMap, votes |-> EmptyMap,
    activities |-> EmptyMap,
    currentIds |-> [ user |-> 1, group |-> 1, groupMember |-> 1, loan |-> 1,
                     guarantor |-> 1, proposal |-> 1, vote |-> 1,
                     activity |-> 1 ] ]

\* Empty tables; every serial column's sequence hands out 1 first
DbInit ==
  [ users |-> <<>>, groups |-> <<>>, groupMembers |-> <<>>, loans |-> <<>>,
    guarantors |-> <<>>, proposals |-> <<>>, votes |-> <<>>,
    activities |-> <<>>,
    serial |-> [ users |-> 1, groups |-> 1, groupMembers |-> 1, loans |-> 1,
                 guarantors |-> 1, proposals |-> 1, votes |-> 1,
                 activities |-> 1 ] ]

\* The calls and requests that may be in flight at a time, and one that is not
Requests == 1..MaxRequests
Idle == [pc |-> "idle"]

\* The client context before any operation: useState(false) for isLoading
ClientIdle ==
  [ op |-> "none", pc |-> "idle", isLoading |-> FALSE, address |-> FALSE,
    receipt |-> FALSE, sent |-> <<>>, grouped |-> FALSE, failed |-> "none",
    outcome |-> "none" ]

Init ==
  /\ mem = MemInit
  /\ db = DbInit
  /\ last = [op |-> "init", arg |-> <<>>, mem |-> Undefined, db |-> Undefined]
  /\ now = 0
  /\ tx = [pc |-> "idle"]
  /\ reqs = [r \in Requests |-> [mem |-> Idle, db |-> Idle]]
  /\ client = ClientIdle

\* The record of the call handled last
Call(op, arg, memRet, dbRet) ==
  [op |-> op, arg |-> arg, mem |-> memRet, db |-> dbRet]

----------------------------------------------------------------------------
(* User operations *)

\* InsertUser bodies: an address and the nullable columns left at their defaults
InsertUsers == { [address |-> a, groupId |-> Null, registered |-> FALSE] : a \in Addresses }

MemGetUserExact(s, address) ==
  IF MapHas(s.users, address) THEN Ok(s.users[address]) ELSE Undefined

MemGetUser(s, address) ==
  IF MapHas(s.users, ToLowerCase(address))
  THEN Ok(s.users[ToLowerCase(address)])
  ELSE Undefined

MemCreateUser(s, userData) ==
  LET id == s.currentIds.user
      address == ToLowerCase(userData.address)
      user == [ id |-> id, address |-> address, groupId |-> userData.groupId,
                registered |-> userData.registered ]
  IN [ store |-> [s EXCEPT !.currentIds.user = id + 1,
                           !.users = MapSet(s.users, address, user)],
       ret |-> Ok(user) ]

MemUpdateUser(s, address, data) ==
  LET user == MemGetUser(s, address)
  IN IF user.kind = "undefined" THEN [store |-> s, ret |-> Undefined]
     ELSE LET updatedUser == Spread(user.val, data)
          IN [ store |-> [s EXCEPT !.users =
                            MapSet(s.users, ToLowerCase(address), updatedUser)],
               ret |-> Ok(updatedUser) ]

\* UPDATE table SET data WHERE ... RETURNING *, for the rows at the positions idx
\* that the WHERE clause selects. A SET without values is refused before any
\* statement is sent; a row that would repeat a value of a unique column is
\* refused by the table. The call resolves with the first row returned.
DbUpdate(s, table, idx, data, unique) ==
  LET rows == [i \in DOMAIN s[table] |->
                 IF i \in idx THEN Spread(s[table][i], data) ELSE s[table][i]]
      clash == \E i \in idx, j \in DOMAIN rows, f \in unique :
                 i # j /\ rows[i][f] = rows[j][f]
  IN IF DOMAIN data = {} \/ clash THEN [store |-> s, ret |-> Throws]
     ELSE [ store |-> [s EXCEPT ![table] = rows],
            ret |-> IF idx = {} THEN Undefined
                    ELSE Ok(rows[CHOOSE i \in idx : \A j \in idx : i <= j]) ]

DbGetUser(s, address) ==
  LET rows == SelectSeq(s.users, LAMBDA r : r.address = ToLowerCase(address))
  IN IF rows = <<>> THEN Undefined ELSE Ok(rows[1])

\* users.address is UNIQUE: a second insert of the address is refused, after the
\* serial sequence handed out its value
DbCreateUser(s, userData) ==
  LET id == s.serial.users
      data == [userData EXCEPT !.address = ToLowerCase(userData.address)]
      user == [ id |-> id, address |-> data.address, groupId |-> data.groupId,
                registered |-> data.registered ]
      s1 == [s EXCEPT !.serial.users = id + 1]
  IN IF \E i \in DOMAIN s.users : s.users[i].address = data.address \/ s.users[i].id = id
     THEN [store |-> s1, ret |-> Throws]
     ELSE [store |-> [s1 EXCEPT !.users = Append(s.users, user)], ret |-> Ok(user)]

DbUpdateUser(s, address, data) ==
  DbUpdate(s, "users",
           { i \in DOMAIN s.users : s.users[i].address = ToLowerCase(address) },
           data, {"id", "address"})

----------------------------------------------------------------------------
(* Group operations *)

GroupNames == {"g"}

\* InsertGroup bodies
InsertGroups == { [name |-> n, admin |-> a] : n \in GroupNames, a \in Addresses }

MemGetGroup(s, id) ==
  IF MapHas(s.groups, id) THEN Ok(s.groups[id]) ELSE Undefined

\* addGroupMember that leaves an existing membership alone
MemAddGroupMemberOnce(s, memberData) ==
  IF \E i \in DOMAIN GetOrEmpty(s.groupMembers, memberData.groupId) :
       ToLowerCase(GetOrEmpty(s.groupMembers, memberData.groupId)[i].memberAddress)
         = ToLowerCase(memberData.memberAddress)
  THEN [ store |-> s,
         ret |-> Ok([ id |-> 0, groupId |-> memberData.groupId,
                      memberAddress |-> memberData.memberAddress ]) ]
  ELSE LET id == s.currentIds.groupMember
           member == [ id |-> id, groupId |-> memberData.groupId,
                       memberAddress |-> memberData.memberAddress ]
           members == GetOrEmpty(s.groupMembers, memberData.groupId)
       IN [ store |-> [s EXCEPT !.currentIds.groupMember = id + 1,
                                !.groupMembers = MapSet(s.groupMembers, memberData.groupId,
                                                        Append(members, member))],
            ret |-> Ok(member) ]

MemAddGroupMember(s, memberData) ==
  LET id == s.currentIds.groupMember
      member == [ id |-> id, groupId |-> memberData.groupId,
                  memberAddress |-> memberData.memberAddress ]
      members == GetOrEmpty(s.groupMembers, memberData.groupId)
  IN [ store |-> [s EXCEPT !.currentIds.groupMember = id + 1,
                           !.groupMembers = MapSet(s.groupMembers, memberData.groupId,
                                                   Append(members, member))],
       ret |-> Ok(member) ]

MemCreateGroup(s, groupData) ==
  LET id == s.currentIds.group
      group == [ id |-> id, name |-> groupData.name, admin |-> groupData.admin,
                 totalDeposits |-> 0, totalLoaned |-> 0 ]
      s1 == [s EXCEPT !.currentIds.group = id + 1,
                      !.groups = MapSet(s.groups, id, group),
                      !.groupMembers = MapSet(s.groupMembers, id, <<>>),
                      !.proposalsByGroup = MapSet(s.proposalsByGroup, id, <<>>)]
      \* Add group admin as the first member
      added == MemAddGroupMember(s1, [groupId |-> id, memberAddress |-> groupData.admin])
  IN [store |-> added.store, ret |-> Ok(group)]

MemUpdateGroup(s, id, data) ==
  LET group == MemGetGroup(s, id)
  IN IF group.kind = "undefined" THEN [store |-> s, ret |-> Undefined]
     ELSE LET updatedGroup == Spread(group.val, data)
          IN [ store |-> [s EXCEPT !.groups = MapSet(s.groups, id, updatedGroup)],
               ret |-> Ok(updatedGroup) ]

\* A membership test that compares the addresses as they were typed
MemIsGroupMemberExact(s, groupId, address) ==
  LET members == GetOrEmpty(s.groupMembers, groupId)
  IN \E i \in DOMAIN members : members[i].memberAddress = address

MemIsGroupMember(s, groupId, address) ==
  LET members == GetOrEmpty(s.groupMembers, groupId)
  IN \E i \in DOMAIN members :
       ToLowerCase(members[i].memberAddress) = ToLowerCase(address)

\* The membership list of a group, as the store keeps it
MemMemberList(s, groupId) == GetOrEmpty(s.groupMembers, groupId)

DbGetGroup(s, id) ==
  LET rows == SelectSeq(s.groups, LAMBDA r : r.id = id)
  IN IF rows = <<>> THEN Undefined ELSE Ok(rows[1])

\* A transaction on the relational store: the statements sent on `tx` are held
\* back until COMMIT publishes them; ROLLBACK drops them. The values a serial
\* sequence handed out are never given back.
TxBegin(s) == [db |-> s, writes |-> <<>>]

\* INSERT ... RETURNING of a row whose id the table's serial sequence supplies
TxInsert(t, table, row) ==
  [ db |-> [t.db EXCEPT !.serial[table] = @ + 1],
    writes |-> Append(t.writes, [kind |-> "insert", table |-> table, row |-> row]) ]

\* UPDATE table SET field = from + 1 WHERE id = ...
TxSetPlusOne(t, table, id, field, from) ==
  [ db |-> t.db,
    writes |-> Append(t.writes, [kind |-> "plusOne", table |-> table, id |-> id,
                                 field |-> field, from |-> from]) ]

ApplyWrite(s, w) ==
  IF w.kind = "insert"
  THEN [s EXCEPT ![w.table] = Append(@, w.row)]
  ELSE [s EXCEPT ![w.table] =
          [i \in DOMAIN @ |-> IF @[i].id = w.id
                              THEN [@[i] EXCEPT ![w.field] = @[i][w.from] + 1]
                              ELSE @[i]]]

RECURSIVE ApplyWrites(_, _)
ApplyWrites(s, writes) ==
  IF writes = <<>> THEN s
  ELSE ApplyWrites(ApplyWrite(s, Head(writes)), Tail(writes))

TxCommit(t) == ApplyWrites(t.db, t.writes)
TxRollback(t) == t.db

\* A single statement on `db` is its own transaction
DbInsert(s, table, row) == TxCommit(TxInsert(TxBegin(s), table, row))

\* id is the PRIMARY KEY: an insert of an id that a row already has is refused
DbKeyTaken(s, table, row) == \E i \in DOMAIN s[table] : s[table][i].id = row.id

\* INSERT ... RETURNING on `db`: the row, or the error of a refused insert
DbInsertReturning(s, table, row) ==
  IF DbKeyTaken(s, table, row)
  THEN [store |-> TxRollback(TxInsert(TxBegin(s), table, row)), ret |-> Throws]
  ELSE [store |-> DbInsert(s, table, row), ret |-> Ok(row)]

GroupRow(s, groupData) ==
  [ id |-> s.serial.groups, name |-> groupData.name, admin |-> groupData.admin,
    totalDeposits |-> 0, totalLoaned |-> 0 ]

GroupMemberRow(s, values) ==
  [ id |-> s.serial.groupMembers, groupId |-> values.groupId,
    memberAddress |-> values.memberAddress ]

\* Where a statement of a transaction may fail (connection lost, value too long)
CreateGroupFaults == {"none", "insertGroup", "insertMember", "commit"}

\* The two inserts sent on `db` itself, each its own transaction
DbCreateGroupNoTx(s, groupData, fault) ==
  LET group == GroupRow(s, groupData)
      s1 == DbInsert(s, "groups", group)
      s2 == DbInsert(s1, "groupMembers",
              GroupMemberRow(s1, [groupId |-> group.id,
                                  memberAddress |-> ToLowerCase(groupData.admin)]))
  IN CASE fault = "insertGroup" -> [store |-> s, ret |-> Throws]
       [] fault = "insertMember" -> [store |-> s1, ret |-> Throws]
       [] fault = "commit" -> [store |-> s2, ret |-> Throws]
       [] OTHER -> [store |-> s2, ret |-> Ok(group)]

DbCreateGroup(s, groupData, fault) ==
  LET t0 == TxBegin(s)
      group == GroupRow(t0.db, groupData)
      t1 == TxInsert(t0, "groups", group)
      \* Add admin as the first member
      t2 == TxInsert(t1, "groupMembers",
              GroupMemberRow(t1.db, [groupId |-> group.id,
                                     memberAddress |-> ToLowerCase(groupData.admin)]))
  IN CASE fault = "insertGroup" -> [store |-> TxRollback(t0), ret |-> Throws]
       [] DbKeyTaken(s, "groups", group) -> [store |-> TxRollback(t1), ret |-> Throws]
       [] fault = "insertMember" -> [store |-> TxRollback(t1), ret |-> Throws]
       [] fault = "commit" -> [store |-> TxRollback(t2), ret |-> Throws]
       [] OTHER -> [store |-> TxCommit(t2), ret |-> Ok(group)]

DbUpdateGroup(s, id, data) ==
  DbUpdate(s, "groups", { i \in DOMAIN s.groups : s.groups[i].id = id }, data, {"id"})

DbAddGroupMember(s, memberData) ==
  LET member == GroupMemberRow(s, [memberData EXCEPT
                    !.memberAddress = ToLowerCase(memberData.memberAddress)])
  IN [store |-> DbInsert(s, "groupMembers", member), ret |-> Ok(member)]

DbIsGroupMember(s, groupId, address) ==
  \E i \in DOMAIN s.groupMembers :
    /\ s.groupMembers[i].groupId = groupId
    /\ s.groupMembers[i].memberAddress = ToLowerCase(address)

\* The membership rows of a group, in the order they were inserted
DbMemberList(s, groupId) == SelectSeq(s.groupMembers, LAMBDA r : r.groupId = groupId)

----------------------------------------------------------------------------
(* Proposal and vote operations *)

\* InsertProposal bodies
InsertProposals ==
  { [groupId |-> g, description |-> "d", deadline |-> 1] : g \in 1..MaxGroups }

\* InsertVote bodies, for proposal ids that exist or not
Voters == { <<"0", "a">>, <<"0", "A">>, <<"0", "b">> }
InsertVotes ==
  { [proposalId |-> p, voterAddress |-> a, vote |-> v] :
      p \in 1..MaxProposals, a \in Voters, v \in BOOLEAN }

MemGetProposal(s, id) ==
  IF MapHas(s.proposals, id) THEN Ok(s.proposals[id]) ELSE Undefined

\* createProposal without `this.votes.set(id, [])`
MemCreateProposalKeepingVotes(s, proposalData) ==
  LET id == s.currentIds.proposal
      proposal == [ id |-> id, groupId |-> proposalData.groupId,
                    description |-> proposalData.description,
                    votesYes |-> 0, votesNo |-> 0,
                    deadline |-> proposalData.deadline, executed |-> FALSE ]
      proposalIds == GetOrEmpty(s.proposalsByGroup, proposalData.groupId)
  IN [ store |-> [s EXCEPT !.currentIds.proposal = id + 1,
                           !.proposals = MapSet(s.proposals, id, proposal),
                           !.proposalsByGroup =
                              MapSet(s.proposalsByGroup, proposalData.groupId,
                                     Append(proposalIds, id))],
       ret |-> Ok(proposal) ]

MemCreateProposal(s, proposalData) ==
  LET id == s.currentIds.proposal
      proposal == [ id |-> id, groupId |-> proposalData.groupId,
                    description |-> proposalData.description,
                    votesYes |-> 0, votesNo |-> 0,
                    deadline |-> proposalData.deadline, executed |-> FALSE ]
      proposalIds == GetOrEmpty(s.proposalsByGroup, proposalData.groupId)
  IN [ store |-> [s EXCEPT !.currentIds.proposal = id + 1,
                           !.proposals = MapSet(s.proposals, id, proposal),
                           !.proposalsByGroup =
                              MapSet(s.proposalsByGroup, proposalData.groupId,
                                     Append(proposalIds, id)),
                           !.votes = MapSet(s.votes, id, <<>>)],
       ret |-> Ok(proposal) ]

MemUpdateProposal(s, id, data) ==
  LET proposal == MemGetProposal(s, id)
  IN IF proposal.kind = "undefined" THEN [store |-> s, ret |-> Undefined]
     ELSE LET updatedProposal == Spread(proposal.val, data)
          IN [ store |-> [s EXCEPT !.proposals =
                            MapSet(s.proposals, id, updatedProposal)],
               ret |-> Ok(updatedProposal) ]

MemGetVotes(s, proposalId) == GetOrEmpty(s.votes, proposalId)

\* addVote that refuses a vote on a proposal that is not there
MemAddVoteOnExisting(s, voteData) ==
  LET id == s.currentIds.vote
      vote == [ id |-> id, proposalId |-> voteData.proposalId,
                voterAddress |-> voteData.voterAddress, vote |-> voteData.vote ]
      votes == GetOrEmpty(s.votes, voteData.proposalId)
      s1 == [s EXCEPT !.currentIds.vote = id + 1,
                      !.votes = MapSet(s.votes, voteData.proposalId,
                                       Append(votes, vote))]
      proposal == MemGetProposal(s1, voteData.proposalId)
  IN IF proposal.kind = "ok"
     THEN LET votesYes == IF voteData.vote THEN proposal.val.votesYes + 1
                          ELSE proposal.val.votesYes
              votesNo == IF ~voteData.vote THEN proposal.val.votesNo + 1
                         ELSE proposal.val.votesNo
          IN [ store |-> MemUpdateProposal(s1, voteData.proposalId,
                           [votesYes |-> votesYes, votesNo |-> votesNo]).store,
               ret |-> Ok(vote) ]
     ELSE [store |-> [s EXCEPT !.currentIds.vote = id + 1], ret |-> Throws]

MemAddVote(s, voteData) ==
  LET id == s.currentIds.vote
      vote == [ id |-> id, proposalId |-> voteData.proposalId,
                voterAddress |-> voteData.voterAddress, vote |-> voteData.vote ]
      votes == GetOrEmpty(s.votes, voteData.proposalId)
      s1 == [s EXCEPT !.currentIds.vote = id + 1,
                      !.votes = MapSet(s.votes, voteData.proposalId,
                                       Append(votes, vote))]
      \* Update proposal vote counts
      proposal == MemGetProposal(s1, voteData.proposalId)
  IN IF proposal.kind = "ok"
     THEN LET votesYes == IF voteData.vote THEN proposal.val.votesYes + 1
                          ELSE proposal.val.votesYes
              votesNo == IF ~voteData.vote THEN proposal.val.votesNo + 1
                         ELSE proposal.val.votesNo
          IN [ store |-> MemUpdateProposal(s1, voteData.proposalId,
                           [votesYes |-> votesYes, votesNo |-> votesNo]).store,
               ret |-> Ok(vote) ]
     ELSE [store |-> s1, ret |-> Ok(vote)]

MemHasVoted(s, proposalId, address) ==
  LET votes == GetOrEmpty(s.votes, proposalId)
  IN \E i \in DOMAIN votes :
       ToLowerCase(votes[i].voterAddress) = ToLowerCase(address)

\* The columns of table proposals: the schema's property and the column's name
ProposalColumns ==
  [ id |-> "id", groupId |-> "group_id", description |-> "description",
    votesYes |-> "votes_yes", votesNo |-> "votes_no", deadline |-> "deadline",
    executed |-> "executed" ]

\* A quoted identifier in raw SQL names a column only by the column's own name
ColumnNamed(columns, ident) == { f \in DOMAIN columns : columns[f] = ident }

DbGetProposal(s, id) ==
  LET rows == SelectSeq(s.proposals, LAMBDA r : r.id = id)
  IN IF rows = <<>> THEN Undefined ELSE Ok(rows[1])

DbCreateProposal(s, proposalData) ==
  LET proposal == [ id |-> s.serial.proposals, groupId |-> proposalData.groupId,
                    description |-> proposalData.description,
                    votesYes |-> 0, votesNo |-> 0,
                    deadline |-> proposalData.deadline, executed |-> FALSE ]
  IN DbInsertReturning(s, "proposals", proposal)

DbUpdateProposal(s, id, data) ==
  DbUpdate(s, "proposals", { i \in DOMAIN s.proposals : s.proposals[i].id = id },
           data, {"id"})

DbGetVotes(s, proposalId) == SelectSeq(s.votes, LAMBDA r : r.proposalId = proposalId)

VoteRow(s, voteData) ==
  [ id |-> s.serial.votes, proposalId |-> voteData.proposalId,
    voterAddress |-> ToLowerCase(voteData.voterAddress), vote |-> voteData.vote ]

\* The insert sent on `db` itself instead of `tx`: published at once
AddVoteInsertOnDb(t, voteData) ==
  [db |-> DbInsert(t.db, "votes", VoteRow(t.db, voteData)), writes |-> t.writes]

\* First statement of addVote: add the vote with lowercase address, on `tx`
AddVoteInsert(t, voteData) == TxInsert(t, "votes", VoteRow(t.db, voteData))

\* Second statement of addVote: .set({ votesYes: sql`"votesYes" + 1` }) or
\* .set({ votesNo: sql`"votesNo" + 1` }) on the proposal; the statement is
\* refused when the quoted identifier names no column of the table
AddVoteTally(t, voteData) ==
  LET field == IF voteData.vote THEN "votesYes" ELSE "votesNo"
      ident == IF voteData.vote THEN "votesYes" ELSE "votesNo"
      from == ColumnNamed(ProposalColumns, ident)
  IN IF from = {} THEN [tx |-> t, ret |-> Throws]
     ELSE [ tx |-> TxSetPlusOne(t, "proposals", voteData.proposalId, field,
                                CHOOSE f \in from : TRUE),
            ret |-> Ok(field) ]

\* db.transaction(callback): COMMIT when the callback returns, ROLLBACK when it throws
AddVoteEnd(t, tallied, vote) ==
  IF tallied.ret.kind = "throw"
  THEN [store |-> TxRollback(t), ret |-> Throws]
  ELSE [store |-> TxCommit(tallied.tx), ret |-> Ok(vote)]

DbAddVote(s, voteData) ==
  LET t0 == TxBegin(s)
      vote == VoteRow(t0.db, voteData)
      t1 == AddVoteInsert(t0, voteData)
  IN AddVoteEnd(t1, AddVoteTally(t1, voteData), vote)

DbHasVoted(s, proposalId, address) ==
  \E i \in DOMAIN s.votes :
    /\ s.votes[i].proposalId = proposalId
    /\ s.votes[i].voterAddress = ToLowerCase(address)

----------------------------------------------------------------------------
(* Loan operations *)

\* InsertLoan bodies
Borrowers == { <<"0", "A">> }
InsertLoans ==
  { [ borrowerAddress |-> a, amount |-> 1, repaid |-> FALSE, approved |-> FALSE,
      defaulted |-> FALSE ] : a \in Borrowers }

MemGetLoan(s, id) ==
  IF MapHas(s.loans, id) THEN Ok(s.loans[id]) ELSE Undefined

MemCreateLoan(s, loanData) ==
  LET id == s.currentIds.loan
      loan == [ id |-> id, borrowerAddress |-> loanData.borrowerAddress,
                amount |-> loanData.amount, repaid |-> loanData.repaid,
                approved |-> loanData.approved, defaulted |-> loanData.defaulted ]
      borrower == ToLowerCase(loanData.borrowerAddress)
      loanIds == GetOrEmpty(s.loansByBorrower, borrower)
  IN [ store |-> [s EXCEPT !.currentIds.loan = id + 1,
                           !.loans = MapSet(s.loans, id, loan),
                           !.loansByBorrower =
                              MapSet(s.loansByBorrower, borrower, Append(loanIds, id)),
                           !.guarantors = MapSet(s.guarantors, id, <<>>)],
       ret |-> Ok(loan) ]

\* InsertGuarantor bodies; loan 3 is never created within the bounds above
Guarantors == { <<"0", "B">>, <<"0", "b">> }
InsertGuarantors ==
  { [ loanId |-> l, guarantorAddress |-> a, approved |-> FALSE ] :
      l \in 1..2, a \in Guarantors }

MemGetLoanGuarantors(s, loanId) == GetOrEmpty(s.guarantors, loanId)

MemAddGuarantor(s, guarantorData) ==
  LET id == s.currentIds.guarantor
      guarantor == [ id |-> id, loanId |-> guarantorData.loanId,
                     guarantorAddress |-> guarantorData.guarantorAddress,
                     approved |-> guarantorData.approved ]
      guarantors == GetOrEmpty(s.guarantors, guarantorData.loanId)
  IN [ store |-> [s EXCEPT !.currentIds.guarantor = id + 1,
                           !.guarantors = MapSet(s.guarantors, guarantorData.loanId,
                                                 Append(guarantors, guarantor))],
       ret |-> Ok(guarantor) ]

DbGetLoanGuarantors(s, loanId) ==
  SelectSeq(s.guarantors, LAMBDA r : r.loanId = loanId)

DbAddGuarantor(s, guarantorData) ==
  LET guarantor == [ id |-> s.serial.guarantors, loanId |-> guarantorData.loanId,
                     guarantorAddress |-> ToLowerCase(guarantorData.guarantorAddress),
                     approved |-> guarantorData.approved ]
  IN [store |-> DbInsert(s, "guarantors", guarantor), ret |-> Ok(guarantor)]

\* The object { approved } as JSON keeps it: without the field when approved is
\* undefined
ApprovedSets == { [approved |-> TRUE], [approved |-> FALSE], EmptyMap }

\* { ...guarantor, approved }
WithApproved(guarantor, set) ==
  IF "approved" \in DOMAIN set
  THEN [f \in DOMAIN guarantor \cup {"approved"} |->
          IF f = "approved" THEN set.approved ELSE guarantor[f]]
  ELSE [f \in DOMAIN guarantor \ {"approved"} |-> guarantor[f]]

MemUpdateGuarantor(s, loanId, address, set) ==
  LET guarantors == GetOrEmpty(s.guarantors, loanId)
      found == { i \in DOMAIN guarantors :
                   ToLowerCase(guarantors[i].guarantorAddress) = ToLowerCase(address) }
  IN IF found = {} THEN [store |-> s, ret |-> Undefined]
     ELSE LET index == CHOOSE i \in found : \A j \in found : i <= j
              updatedGuarantor == WithApproved(guarantors[index], set)
          IN [ store |-> [s EXCEPT !.guarantors =
                            MapSet(s.guarantors, loanId,
                                   [guarantors EXCEPT ![index] = updatedGuarantor])],
               ret |-> Ok(updatedGuarantor) ]

DbUpdateGuarantor(s, loanId, address, set) ==
  DbUpdate(s, "guarantors",
           { i \in DOMAIN s.guarantors :
               /\ s.guarantors[i].loanId = loanId
               /\ s.guarantors[i].guarantorAddress = ToLowerCase(address) },
           set, {"id"})

MemUpdateLoan(s, id, data) ==
  LET loan == MemGetLoan(s, id)
  IN IF loan.kind = "undefined" THEN [store |-> s, ret |-> Undefined]
     ELSE LET updatedLoan == Spread(loan.val, data)
          IN [ store |-> [s EXCEPT !.loans = MapSet(s.loans, id, updatedLoan)],
               ret |-> Ok(updatedLoan) ]

DbGetLoan(s, id) ==
  LET rows == SelectSeq(s.loans, LAMBDA r : r.id = id)
  IN IF rows = <<>> THEN Undefined ELSE Ok(rows[1])

DbCreateLoan(s, loanData) ==
  LET loan == [ id |-> s.serial.loans,
                borrowerAddress |-> ToLowerCase(loanData.borrowerAddress),
                amount |-> loanData.amount, repaid |-> loanData.repaid,
                approved |-> loanData.approved, defaulted |-> loanData.defaulted ]
  IN DbInsertReturning(s, "loans", loan)

DbUpdateLoan(s, id, data) ==
  DbUpdate(s, "loans", { i \in DOMAIN s.loans : s.loans[i].id = id }, data, {"id"})

----------------------------------------------------------------------------
(* Activity operations *)

\* A JavaScript number that is an integer, and NaN
Num(n) == [nan |-> FALSE, val |-> n]
NaN == [nan |-> TRUE, val |-> 0]

\* `limit = 10`, and `: 10` of the activities route
DefaultLimit == 10

\* InsertActivity bodies
ActivityTypes == {"join_group"}
ActivityAddresses == { <<"0", "A">> }
InsertActivities ==
  { [groupId |-> g, userAddress |-> a, activityType |-> ty] :
      g \in 1..MaxGroups, a \in ActivityAddresses, ty \in ActivityTypes }

\* Array.prototype.sort((a, b) => b.timestamp - a.timestamp): stable, so records
\* of one timestamp keep their order
SortRank(seq, i) ==
  1 + Cardinality({ j \in DOMAIN seq : seq[j].timestamp > seq[i].timestamp })
    + Cardinality({ j \in DOMAIN seq : j < i /\ seq[j].timestamp = seq[i].timestamp })

SortByTimestampDesc(seq) ==
  [k \in DOMAIN seq |-> seq[CHOOSE i \in DOMAIN seq : SortRank(seq, i) = k]]

\* Array.prototype.slice(0, end): NaN counts as 0, a negative end counts from the
\* back
Slice0(seq, end) ==
  LET n == Len(seq)
      e == IF end.nan THEN 0
           ELSE IF end.val < 0 THEN (IF n + end.val > 0 THEN n + end.val ELSE 0)
           ELSE IF end.val < n THEN end.val ELSE n
  IN SubSeq(seq, 1, e)

\* The activities in insertion order, cut to the limit
MemGetGroupActivitiesUnsorted(s, groupId, limit) ==
  Ok(Slice0(GetOrEmpty(s.activities, groupId), limit))

MemGetGroupActivities(s, groupId, limit) ==
  LET activities == GetOrEmpty(s.activities, groupId)
  IN Ok(Slice0(SortByTimestampDesc(activities), limit))

\* addActivity with activities.unshift(activity) for activities.push(activity)
MemAddActivityFirst(s, activityData, time) ==
  LET id == s.currentIds.activity
      activity == [ id |-> id, groupId |-> activityData.groupId,
                    userAddress |-> activityData.userAddress,
                    activityType |-> activityData.activityType,
                    timestamp |-> time ]
      activities == GetOrEmpty(s.activities, activityData.groupId)
  IN [ store |-> [s EXCEPT !.currentIds.activity = id + 1,
                           !.activities = MapSet(s.activities, activityData.groupId,
                                                 <<activity>> \o activities)],
       ret |-> Ok(activity) ]

MemAddActivity(s, activityData, time) ==
  LET id == s.currentIds.activity
      activity == [ id |-> id, groupId |-> activityData.groupId,
                    userAddress |-> activityData.userAddress,
                    activityType |-> activityData.activityType,
                    timestamp |-> time ]
      activities == GetOrEmpty(s.activities, activityData.groupId)
  IN [ store |-> [s EXCEPT !.currentIds.activity = id + 1,
                           !.activities = MapSet(s.activities, activityData.groupId,
                                                 Append(activities, activity))],
       ret |-> Ok(activity) ]

\* The orders ORDER BY timestamp DESC may return the rows in: rows of one
\* timestamp come in any order
OrderedByTimestampDesc(rows) ==
  { [k \in DOMAIN rows |-> rows[perm[k]]] :
      perm \in { f \in [DOMAIN rows -> DOMAIN rows] :
                   /\ \A i, j \in DOMAIN rows : i # j => f[i] # f[j]
                   /\ \A i, j \in DOMAIN rows :
                        i < j => rows[f[i]].timestamp >= rows[f[j]].timestamp } }

\* What DatabaseStorage.getGroupActivities may return: LIMIT refuses a negative
\* count and a value that is no integer
DbGetGroupActivities(s, groupId, limit) ==
  IF limit.nan \/ limit.val < 0 THEN {Throws}
  ELSE LET rows == SelectSeq(s.activities, LAMBDA r : r.groupId = groupId)
           n == IF limit.val < Len(rows) THEN limit.val ELSE Len(rows)
       IN { Ok(SubSeq(sorted, 1, n)) : sorted \in OrderedByTimestampDesc(rows) }

\* timestamp defaultNow(); undefined has no toLowerCase
DbAddActivity(s, activityData, time) ==
  IF activityData.userAddress = UndefinedAddress THEN [store |-> s, ret |-> Throws]
  ELSE
  LET activity == [ id |-> s.serial.activities, groupId |-> activityData.groupId,
                    userAddress |-> ToLowerCase(activityData.userAddress),
                    activityType |-> activityData.activityType,
                    timestamp |-> time ]
  IN [store |-> DbInsert(s, "activities", activity), ret |-> Ok(activity)]

\* The characters of a query parameter
DigitChars == {"0", "1", "2", "3", "4", "5", "6", "7", "8", "9"}
DigitValue(c) ==
  CASE c = "0" -> 0 [] c = "1" -> 1 [] c = "2" -> 2 [] c = "3" -> 3 [] c = "4" -> 4
    [] c = "5" -> 5 [] c = "6" -> 6 [] c = "7" -> 7 [] c = "8" -> 8 [] c = "9" -> 9

\* The longest prefix of digits
RECURSIVE DigitPrefix(_)
DigitPrefix(str) ==
  IF str = <<>> \/ Head(str) \notin DigitChars THEN <<>>
  ELSE <<Head(str)>> \o DigitPrefix(Tail(str))

RECURSIVE DecimalValue(_)
DecimalValue(digits) ==
  IF digits = <<>> THEN 0
  ELSE 10 * DecimalValue(SubSeq(digits, 1, Len(digits) - 1))
       + DigitValue(digits[Len(digits)])

\* parseInt(string): an optional sign, then the digits up to the first other
\* character; NaN when there is no digit
ParseInt(str) ==
  LET signed == str # <<>> /\ Head(str) \in {"-", "+"}
      rest == IF signed THEN Tail(str) ELSE str
      digits == DigitPrefix(rest)
  IN IF digits = <<>> THEN NaN
     ELSE IF signed /\ Head(str) = "-" THEN Num(0 - DecimalValue(digits))
     ELSE Num(DecimalValue(digits))

\* req.query.limit: absent, or the text after `limit=`
QueryLimits ==
  { [present |-> FALSE, text |-> <<>>] } \cup
  { [present |-> TRUE, text |-> t] :
      t \in { <<>>, <<"0">>, <<"1">>, <<"2">>, <<"-", "1">>, <<"a">>, <<"1", "a">> } }

\* `req.query.limit ? parseInt(req.query.limit as string) : 10`
RouteLimit(q) ==
  IF q.present /\ q.text # <<>> THEN ParseInt(q.text) ELSE Num(DefaultLimit)

----------------------------------------------------------------------------
(* REST handlers. `storage` is an IStorage: K says which implementation       *)
(* stands behind it.                                                          *)

StorageGetProposal(K, s, id) ==
  IF K = "mem" THEN MemGetProposal(s, id) ELSE DbGetProposal(s, id)

StorageCreateProposal(K, s, proposalData) ==
  IF K = "mem" THEN MemCreateProposal(s, proposalData)
  ELSE DbCreateProposal(s, proposalData)

StorageHasVoted(K, s, proposalId, address) ==
  IF K = "mem" THEN MemHasVoted(s, proposalId, address)
  ELSE DbHasVoted(s, proposalId, address)

StorageAddVote(K, s, voteData) ==
  IF K = "mem" THEN MemAddVote(s, voteData) ELSE DbAddVote(s, voteData)

\* K = "dbLogDown" is DatabaseStorage while the INSERT into activities is
\* refused (the pool's query rejects): every other call runs as on "db"
StorageAddActivity(K, s, activityData, time) ==
  IF K = "mem" THEN MemAddActivity(s, activityData, time)
  ELSE IF K = "dbLogDown" THEN [store |-> s, ret |-> Throws]
  ELSE DbAddActivity(s, activityData, time)

\* res.status(n).json(body)
Reply(status, body) == [kind |-> "reply", status |-> status, val |-> body]

\* req.body.field, undefined when the body has no such field
Field(body, f) == IF f \in DOMAIN body THEN body[f] ELSE UndefinedAddress

\* validateRequest(insertProposalSchema, req.body)
ValidProposal(body) == {"groupId", "description", "deadline"} \subseteq DOMAIN body

\* POST /api/proposals
PostProposal(K, s, body, time) ==
  IF ~ValidProposal(body) THEN [store |-> s, ret |-> Reply(400, "validation")]
  ELSE
  LET data == [ groupId |-> body.groupId, description |-> body.description,
                deadline |-> body.deadline ]
      created == StorageCreateProposal(K, s, data)
      \* Add activity for proposal creation
      logged == StorageAddActivity(K, created.store,
                  [ groupId |-> data.groupId,
                    userAddress |-> Field(body, "creatorAddress"),
                    activityType |-> "proposal_created" ], time)
  IN IF logged.ret.kind = "throw"
     THEN [store |-> logged.store, ret |-> Reply(500, "Failed to create proposal")]
     ELSE [store |-> logged.store, ret |-> Reply(201, created.ret.val)]

\* validateRequest(insertVoteSchema, { proposalId: parseInt(req.params.id), ... })
ValidVote(id, body) ==
  /\ ~ParseInt(id).nan
  /\ {"voterAddress", "vote"} \subseteq DOMAIN body

\* The route with hasVoted never true
PostVoteUnchecked(K, s, id, body, time) ==
  IF ~ValidVote(id, body) THEN [store |-> s, ret |-> Reply(400, "validation")]
  ELSE
  LET data == [ proposalId |-> ParseInt(id).val, voterAddress |-> body.voterAddress,
                vote |-> body.vote ]
      proposal == StorageGetProposal(K, s, ParseInt(id).val)
  IN IF proposal.kind = "undefined"
     THEN [store |-> s, ret |-> Reply(404, "Proposal not found")]
     ELSE
     LET voted == StorageAddVote(K, s, data)
         logged == StorageAddActivity(K, voted.store,
                     [ groupId |-> proposal.val.groupId,
                       userAddress |-> data.voterAddress,
                       activityType |-> "vote_cast" ], time)
     IN IF voted.ret.kind = "throw"
        THEN [store |-> voted.store, ret |-> Reply(500, "Failed to add vote")]
        ELSE IF logged.ret.kind = "throw"
        THEN [store |-> logged.store, ret |-> Reply(500, "Failed to add vote")]
        ELSE [store |-> logged.store, ret |-> Reply(201, voted.ret.val)]

\* POST /api/proposals/:id/votes
PostVote(K, s, id, body, time) ==
  IF ~ValidVote(id, body) THEN [store |-> s, ret |-> Reply(400, "validation")]
  ELSE
  LET data == [ proposalId |-> ParseInt(id).val, voterAddress |-> body.voterAddress,
                vote |-> body.vote ]
      proposal == StorageGetProposal(K, s, ParseInt(id).val)
  IN IF proposal.kind = "undefined"
     THEN [store |-> s, ret |-> Reply(404, "Proposal not found")]
     ELSE IF StorageHasVoted(K, s, proposal.val.id, data.voterAddress)
     THEN [store |-> s, ret |-> Reply(400, "Already voted on this proposal")]
     ELSE
     LET voted == StorageAddVote(K, s, data)
         \* Add activity for voting
         logged == StorageAddActivity(K, voted.store,
                     [ groupId |-> proposal.val.groupId,
                       userAddress |-> data.voterAddress,
                       activityType |-> "vote_cast" ], time)
     IN IF voted.ret.kind = "throw"
        THEN [store |-> voted.store, ret |-> Reply(500, "Failed to add vote")]
        ELSE IF logged.ret.kind = "throw"
        THEN [store |-> logged.store, ret |-> Reply(500, "Failed to add vote")]
        ELSE [store |-> logged.store, ret |-> Reply(201, voted.ret.val)]

\* Request bodies: complete ones, and ones with a field left out
ProposalBodies ==
  { [groupId |-> 1, description |-> "d", deadline |-> 1, creatorAddress |-> <<"0", "a">>],
    [groupId |-> 1, description |-> "d", deadline |-> 1],
    [groupId |-> 1, description |-> "d"] }

VoteBodies ==
  { [voterAddress |-> a, vote |-> v] : a \in Voters, v \in BOOLEAN } \cup { [vote |-> TRUE] }

StorageGetUser(K, s, address) ==
  IF K = "mem" THEN MemGetUser(s, address) ELSE DbGetUser(s, address)

StorageCreateUser(K, s, userData) ==
  IF K = "mem" THEN MemCreateUser(s, userData) ELSE DbCreateUser(s, userData)

StorageUpdateUser(K, s, address, data) ==
  IF K = "mem" THEN MemUpdateUser(s, address, data) ELSE DbUpdateUser(s, address, data)

StorageGetGroup(K, s, id) ==
  IF K = "mem" THEN MemGetGroup(s, id) ELSE DbGetGroup(s, id)

StorageCreateGroup(K, s, groupData) ==
  IF K = "mem" THEN MemCreateGroup(s, groupData) ELSE DbCreateGroup(s, groupData, "none")

StorageIsGroupMember(K, s, groupId, address) ==
  IF K = "mem" THEN MemIsGroupMember(s, groupId, address)
  ELSE DbIsGroupMember(s, groupId, address)

StorageAddGroupMember(K, s, memberData) ==
  IF K = "mem" THEN MemAddGroupMember(s, memberData) ELSE DbAddGroupMember(s, memberData)

StorageGetLoan(K, s, id) ==
  IF K = "mem" THEN MemGetLoan(s, id) ELSE DbGetLoan(s, id)

StorageCreateLoan(K, s, loanData) ==
  IF K = "mem" THEN MemCreateLoan(s, loanData) ELSE DbCreateLoan(s, loanData)

StorageUpdateLoan(K, s, id, data) ==
  IF K = "mem" THEN MemUpdateLoan(s, id, data) ELSE DbUpdateLoan(s, id, data)

StorageAddGuarantor(K, s, guarantorData) ==
  IF K = "mem" THEN MemAddGuarantor(s, guarantorData) ELSE DbAddGuarantor(s, guarantorData)

StorageUpdateGuarantor(K, s, loanId, address, set) ==
  IF K = "mem" THEN MemUpdateGuarantor(s, loanId, address, set)
  ELSE DbUpdateGuarantor(s, loanId, address, set)

StorageUpdateProposal(K, s, id, data) ==
  IF K = "mem" THEN MemUpdateProposal(s, id, data) ELSE DbUpdateProposal(s, id, data)

\* `req.body.flag` read as a condition: true only for a field given as true
Truthy(body, f) == f \in DOMAIN body /\ body[f] = TRUE

\* validateRequest(insertUserSchema, req.body)
ValidUser(body) == "address" \in DOMAIN body

\* POST /api/users
PostUser(K, s, body) ==
  IF ~ValidUser(body) THEN [store |-> s, ret |-> Reply(400, "validation")]
  ELSE
  LET existingUser == StorageGetUser(K, s, body.address)
      created == StorageCreateUser(K, s, body)
  IN IF existingUser.kind = "ok" THEN [store |-> s, ret |-> Reply(200, existingUser.val)]
     ELSE IF created.ret.kind = "throw"
     THEN [store |-> created.store, ret |-> Reply(500, "Failed to create user")]
     ELSE [store |-> created.store, ret |-> Reply(201, created.ret.val)]

\* PATCH /api/users/:address
PatchUser(K, s, address, body) ==
  LET updated == StorageUpdateUser(K, s, address, body)
  IN IF updated.ret.kind = "throw"
     THEN [store |-> updated.store, ret |-> Reply(500, "Failed to update user")]
     ELSE IF updated.ret.kind = "undefined"
     THEN [store |-> updated.store, ret |-> Reply(404, "User not found")]
     ELSE [store |-> updated.store, ret |-> Reply(200, updated.ret.val)]

\* validateRequest(insertGroupSchema, req.body)
ValidGroup(body) == {"name", "admin"} \subseteq DOMAIN body

\* The route as one transaction: when the activity cannot be written the
\* group and its membership row are undone (the sequences stay advanced)
PostGroupAtomic(K, s, body, time) ==
  IF ~ValidGroup(body) THEN [store |-> s, ret |-> Reply(400, "validation")]
  ELSE
  LET created == StorageCreateGroup(K, s, body)
      group == created.ret.val
      logged == StorageAddActivity(K, created.store,
                  [ groupId |-> group.id, userAddress |-> group.admin,
                    activityType |-> "create_group" ], time)
  IN IF created.ret.kind = "throw"
     THEN [store |-> created.store, ret |-> Reply(500, "Failed to create group")]
     ELSE IF logged.ret.kind = "throw"
     THEN [ store |-> IF K = "mem" THEN s ELSE [s EXCEPT !.serial = logged.store.serial],
            ret |-> Reply(500, "Failed to create group") ]
     ELSE [store |-> logged.store, ret |-> Reply(201, group)]

\* POST /api/groups
PostGroup(K, s, body, time) ==
  IF ~ValidGroup(body) THEN [store |-> s, ret |-> Reply(400, "validation")]
  ELSE
  LET created == StorageCreateGroup(K, s, body)
      group == created.ret.val
      \* Add activity for group creation
      logged == StorageAddActivity(K, created.store,
                  [ groupId |-> group.id, userAddress |-> group.admin,
                    activityType |-> "create_group" ], time)
  IN IF created.ret.kind = "throw"
     THEN [store |-> created.store, ret |-> Reply(500, "Failed to create group")]
     ELSE IF logged.ret.kind = "throw"
     THEN [store |-> logged.store, ret |-> Reply(500, "Failed to create group")]
     ELSE [store |-> logged.store, ret |-> Reply(201, group)]

\* validateRequest(insertGroupMemberSchema, { groupId: parseInt(req.params.id), ... })
ValidGroupMember(id, body) ==
  /\ ~ParseInt(id).nan
  /\ "memberAddress" \in DOMAIN body

\* The route answering 201 without the activity
PostGroupMemberUnlogged(K, s, id, body, time) ==
  IF ~ValidGroupMember(id, body) THEN [store |-> s, ret |-> Reply(400, "validation")]
  ELSE
  LET data == [groupId |-> ParseInt(id).val, memberAddress |-> body.memberAddress]
      group == StorageGetGroup(K, s, ParseInt(id).val)
      added == StorageAddGroupMember(K, s, data)
      updated == StorageUpdateUser(K, added.store, data.memberAddress,
                   [groupId |-> group.val.id, registered |-> TRUE])
  IN IF group.kind = "undefined"
     THEN [store |-> s, ret |-> Reply(404, "Group not found")]
     ELSE IF StorageIsGroupMember(K, s, group.val.id, data.memberAddress)
     THEN [store |-> s, ret |-> Reply(400, "Already a member of this group")]
     ELSE IF added.ret.kind = "throw"
     THEN [store |-> added.store, ret |-> Reply(500, "Failed to add group member")]
     ELSE IF updated.ret.kind = "throw"
     THEN [store |-> updated.store, ret |-> Reply(500, "Failed to add group member")]
     ELSE [store |-> updated.store, ret |-> Reply(201, added.ret.val)]

\* POST /api/groups/:id/members
PostGroupMember(K, s, id, body, time) ==
  IF ~ValidGroupMember(id, body) THEN [store |-> s, ret |-> Reply(400, "validation")]
  ELSE
  LET data == [groupId |-> ParseInt(id).val, memberAddress |-> body.memberAddress]
      group == StorageGetGroup(K, s, ParseInt(id).val)
      added == StorageAddGroupMember(K, s, data)
      \* Update user with group info
      updated == StorageUpdateUser(K, added.store, data.memberAddress,
                   [groupId |-> group.val.id, registered |-> TRUE])
      \* Add activity for joining group
      logged == StorageAddActivity(K, updated.store,
                  [ groupId |-> group.val.id, userAddress |-> data.memberAddress,
                    activityType |-> "join_group" ], time)
  IN IF group.kind = "undefined"
     THEN [store |-> s, ret |-> Reply(404, "Group not found")]
     ELSE IF StorageIsGroupMember(K, s, group.val.id, data.memberAddress)
     THEN [store |-> s, ret |-> Reply(400, "Already a member of this group")]
     ELSE IF added.ret.kind = "throw"
     THEN [store |-> added.store, ret |-> Reply(500, "Failed to add group member")]
     ELSE IF updated.ret.kind = "throw"
     THEN [store |-> updated.store, ret |-> Reply(500, "Failed to add group member")]
     ELSE IF logged.ret.kind = "throw"
     THEN [store |-> logged.store, ret |-> Reply(500, "Failed to add group member")]
     ELSE [store |-> logged.store, ret |-> Reply(201, added.ret.val)]

\* `const user = await storage.getUser(borrower); if (user && user.groupId)
\* await storage.addActivity({ groupId: user.groupId, ... })`
LogForBorrower(K, s, borrower, userAddress, activityType, time) ==
  LET user == StorageGetUser(K, s, borrower)
  IN IF user.kind = "ok" /\ user.val.groupId # Null
     THEN StorageAddActivity(K, s,
            [ groupId |-> user.val.groupId, userAddress |-> userAddress,
              activityType |-> activityType ], time)
     ELSE [store |-> s, ret |-> Undefined]

\* validateRequest(insertLoanSchema, req.body)
ValidLoan(body) == {"borrowerAddress", "amount", "dueDate"} \subseteq DOMAIN body

\* `for (const guarantorAddress of req.body.guarantors) await storage.addGuarantor(...)`
RECURSIVE AddGuarantors(_, _, _, _)
AddGuarantors(K, s, loanId, addresses) ==
  IF addresses = <<>> THEN [store |-> s, ret |-> Undefined]
  ELSE LET added == StorageAddGuarantor(K, s,
                      [ loanId |-> loanId, guarantorAddress |-> Head(addresses),
                        approved |-> FALSE ])
       IN IF added.ret.kind = "throw" THEN added
          ELSE AddGuarantors(K, added.store, loanId, Tail(addresses))

\* POST /api/loans
PostLoan(K, s, body, time) ==
  IF ~ValidLoan(body) THEN [store |-> s, ret |-> Reply(400, "validation")]
  ELSE
  LET data == [ borrowerAddress |-> body.borrowerAddress, amount |-> body.amount,
                repaid |-> body.repaid, approved |-> body.approved,
                defaulted |-> body.defaulted ]
      created == StorageCreateLoan(K, s, data)
      loan == created.ret.val
      \* Add guarantors if provided
      guaranteed == IF "guarantors" \in DOMAIN body
                    THEN AddGuarantors(K, created.store, loan.id, body.guarantors)
                    ELSE [store |-> created.store, ret |-> Undefined]
      \* Add activity for loan request
      logged == LogForBorrower(K, guaranteed.store, data.borrowerAddress,
                               data.borrowerAddress, "loan_request", time)
  IN IF created.ret.kind = "throw"
     THEN [store |-> created.store, ret |-> Reply(500, "Failed to create loan")]
     ELSE IF guaranteed.ret.kind = "throw"
     THEN [store |-> guaranteed.store, ret |-> Reply(500, "Failed to create loan")]
     ELSE IF logged.ret.kind = "throw"
     THEN [store |-> logged.store, ret |-> Reply(500, "Failed to create loan")]
     ELSE [store |-> logged.store, ret |-> Reply(201, loan)]

\* The route with the loan lifecycle enforced: repaid or defaulted only once
\* approved, and never both
PatchLoanLifecycle(K, s, id, body, time) ==
  LET before == StorageGetLoan(K, s, ParseInt(id).val)
      updated == StorageUpdateLoan(K, s, ParseInt(id).val, body)
      loan == updated.ret.val
      activityType == IF Truthy(body, "approved") THEN "loan_approved"
                      ELSE IF Truthy(body, "repaid") THEN "loan_repaid"
                      ELSE IF Truthy(body, "defaulted") THEN "loan_defaulted"
                      ELSE "loan_update"
      logged == LogForBorrower(K, updated.store, loan.borrowerAddress,
                               loan.borrowerAddress, activityType, time)
  IN IF /\ before.kind = "ok"
        /\ \/ (Truthy(body, "repaid") \/ Truthy(body, "defaulted")) /\ ~before.val.approved
           \/ Truthy(body, "repaid") /\ before.val.defaulted
           \/ Truthy(body, "defaulted") /\ before.val.repaid
     THEN [store |-> s, ret |-> Reply(400, "lifecycle")]
     ELSE IF updated.ret.kind = "throw"
     THEN [store |-> updated.store, ret |-> Reply(500, "Failed to update loan")]
     ELSE IF updated.ret.kind = "undefined"
     THEN [store |-> updated.store, ret |-> Reply(404, "Loan not found")]
     ELSE IF logged.ret.kind = "throw"
     THEN [store |-> logged.store, ret |-> Reply(500, "Failed to update loan")]
     ELSE [store |-> logged.store, ret |-> Reply(200, loan)]

\* PATCH /api/loans/:id
PatchLoan(K, s, id, body, time) ==
  LET updated == StorageUpdateLoan(K, s, ParseInt(id).val, body)
      loan == updated.ret.val
      activityType == IF Truthy(body, "approved") THEN "loan_approved"
                      ELSE IF Truthy(body, "repaid") THEN "loan_repaid"
                      ELSE IF Truthy(body, "defaulted") THEN "loan_defaulted"
                      ELSE "loan_update"
      \* Add activity for loan status update
      logged == LogForBorrower(K, updated.store, loan.borrowerAddress,
                               loan.borrowerAddress, activityType, time)
  IN IF updated.ret.kind = "throw"
     THEN [store |-> updated.store, ret |-> Reply(500, "Failed to update loan")]
     ELSE IF updated.ret.kind = "undefined"
     THEN [store |-> updated.store, ret |-> Reply(404, "Loan not found")]
     ELSE IF logged.ret.kind = "throw"
     THEN [store |-> logged.store, ret |-> Reply(500, "Failed to update loan")]
     ELSE [store |-> logged.store, ret |-> Reply(200, loan)]

\* validateRequest(insertGuarantorSchema, { loanId: parseInt(req.params.id), ... })
ValidGuarantor(id, body) ==
  /\ ~ParseInt(id).nan
  /\ "guarantorAddress" \in DOMAIN body

\* The route looking the loan up before it validates the body
PostGuarantorLookupFirst(K, s, id, body, time) ==
  LET data == [ loanId |-> ParseInt(id).val,
                guarantorAddress |-> Field(body, "guarantorAddress"),
                approved |-> Truthy(body, "approved") ]
      loan == StorageGetLoan(K, s, ParseInt(id).val)
      added == StorageAddGuarantor(K, s, data)
      logged == LogForBorrower(K, added.store, loan.val.borrowerAddress,
                               data.guarantorAddress, "guarantor_added", time)
  IN IF loan.kind = "undefined"
     THEN [store |-> s, ret |-> Reply(404, "Loan not found")]
     ELSE IF ~ValidGuarantor(id, body)
     THEN [store |-> s, ret |-> Reply(400, "validation")]
     ELSE IF added.ret.kind = "throw"
     THEN [store |-> added.store, ret |-> Reply(500, "Failed to add guarantor")]
     ELSE IF logged.ret.kind = "throw"
     THEN [store |-> logged.store, ret |-> Reply(500, "Failed to add guarantor")]
     ELSE [store |-> logged.store, ret |-> Reply(201, added.ret.val)]

\* POST /api/loans/:id/guarantors
PostGuarantor(K, s, id, body, time) ==
  IF ~ValidGuarantor(id, body) THEN [store |-> s, ret |-> Reply(400, "validation")]
  ELSE
  LET data == [ loanId |-> ParseInt(id).val, guarantorAddress |-> body.guarantorAddress,
                approved |-> Truthy(body, "approved") ]
      loan == StorageGetLoan(K, s, ParseInt(id).val)
      added == StorageAddGuarantor(K, s, data)
      \* Add activity for guarantor addition
      logged == LogForBorrower(K, added.store, loan.val.borrowerAddress,
                               data.guarantorAddress, "guarantor_added", time)
  IN IF loan.kind = "undefined"
     THEN [store |-> s, ret |-> Reply(404, "Loan not found")]
     ELSE IF added.ret.kind = "throw"
     THEN [store |-> added.store, ret |-> Reply(500, "Failed to add guarantor")]
     ELSE IF logged.ret.kind = "throw"
     THEN [store |-> logged.store, ret |-> Reply(500, "Failed to add guarantor")]
     ELSE [store |-> logged.store, ret |-> Reply(201, added.ret.val)]

\* PATCH /api/loans/:id/guarantors/:address
PatchGuarantor(K, s, id, address, body, time) ==
  LET set == IF "approved" \in DOMAIN body THEN [approved |-> body.approved]
             ELSE EmptyMap
      updated == StorageUpdateGuarantor(K, s, ParseInt(id).val, address, set)
      \* Add activity for guarantor approval
      loan == StorageGetLoan(K, updated.store, ParseInt(id).val)
      logged == IF loan.kind = "ok" /\ Truthy(body, "approved")
                THEN LogForBorrower(K, updated.store, loan.val.borrowerAddress,
                                    address, "guarantor_approved", time)
                ELSE [store |-> updated.store, ret |-> Undefined]
  IN IF updated.ret.kind = "throw"
     THEN [store |-> updated.store, ret |-> Reply(500, "Failed to update guarantor")]
     ELSE IF updated.ret.kind = "undefined"
     THEN [store |-> updated.store, ret |-> Reply(404, "Guarantor not found")]
     ELSE IF logged.ret.kind = "throw"
     THEN [store |-> logged.store, ret |-> Reply(500, "Failed to update guarantor")]
     ELSE [store |-> logged.store, ret |-> Reply(200, updated.ret.val)]

\* PATCH /api/proposals/:id
PatchProposal(K, s, id, body, time) ==
  LET updated == StorageUpdateProposal(K, s, ParseInt(id).val, body)
      proposal == updated.ret.val
      \* Add activity for proposal execution
      logged == IF Truthy(body, "executed")
                THEN StorageAddActivity(K, updated.store,
                       [ groupId |-> proposal.groupId,
                         userAddress |-> Field(body, "executorAddress"),
                         activityType |-> "proposal_executed" ], time)
                ELSE [store |-> updated.store, ret |-> Undefined]
  IN IF updated.ret.kind = "throw"
     THEN [store |-> updated.store, ret |-> Reply(500, "Failed to update proposal")]
     ELSE IF updated.ret.kind = "undefined"
     THEN [store |-> updated.store, ret |-> Reply(404, "Proposal not found")]
     ELSE IF logged.ret.kind = "throw"
     THEN [store |-> logged.store, ret |-> Reply(500, "Failed to update proposal")]
     ELSE [store |-> logged.store, ret |-> Reply(200, proposal)]

\* The :id of a route: decimal texts, and one that is no number
IdTexts == { <<"1">>, <<"2">>, <<"3">>, <<"x">> }

----------------------------------------------------------------------------
(* Storage calls, made on both stores *)

CreateUser(userData) ==
  /\ mem.currentIds.user <= MaxUsers
  /\ LET m == MemCreateUser(mem, userData)
         d == DbCreateUser(db, userData)
     IN /\ mem' = m.store
        /\ db' = d.store
        /\ last' = Call("createUser", userData, m.ret, d.ret)
  /\ UNCHANGED <<now, tx, reqs, client>>

UserUpdates == { [groupId |-> g, registered |-> TRUE] : g \in 1..MaxGroups }

UpdateUser(address, data) ==
  /\ LET m == MemUpdateUser(mem, address, data)
         d == DbUpdateUser(db, address, data)
     IN /\ mem' = m.store
        /\ db' = d.store
        /\ last' = Call("updateUser", [address |-> address, data |-> data], m.ret, d.ret)
  /\ UNCHANGED <<now, tx, reqs, client>>

CreateGroup(groupData, fault) ==
  /\ mem.currentIds.group <= MaxGroups
  /\ mem.currentIds.groupMember <= MaxMembers
  /\ LET m == MemCreateGroup(mem, groupData)
         d == DbCreateGroup(db, groupData, fault)
     IN /\ mem' = m.store
        /\ db' = d.store
        /\ last' = Call("createGroup", [data |-> groupData, fault |-> fault], m.ret, d.ret)
  /\ UNCHANGED <<now, tx, reqs, client>>

AddGroupMember(memberData) ==
  /\ mem.currentIds.groupMember <= MaxMembers
  /\ LET m == MemAddGroupMember(mem, memberData)
         d == DbAddGroupMember(db, memberData)
     IN /\ mem' = m.store
        /\ db' = d.store
        /\ last' = Call("addGroupMember", memberData, m.ret, d.ret)
  /\ UNCHANGED <<now, tx, reqs, client>>

CreateProposal(proposalData) ==
  /\ mem.currentIds.proposal <= MaxProposals
  /\ LET m == MemCreateProposal(mem, proposalData)
         d == DbCreateProposal(db, proposalData)
     IN /\ mem' = m.store
        /\ db' = d.store
        /\ last' = Call("createProposal", proposalData, m.ret, d.ret)
  /\ UNCHANGED <<now, tx, reqs, client>>

AddVote(voteData) ==
  /\ mem.currentIds.vote <= MaxVotes
  /\ LET m == MemAddVote(mem, voteData)
         d == DbAddVote(db, voteData)
     IN /\ mem' = m.store
        /\ db' = d.store
        /\ last' = Call("addVote", voteData, m.ret, d.ret)
  /\ UNCHANGED <<now, tx, reqs, client>>

\* DatabaseStorage.addVote, statement by statement: BEGIN and the insert ...
DbAddVoteBegin(voteData) ==
  /\ tx.pc = "idle"
  /\ db.serial.votes <= MaxVotes
  /\ LET t1 == AddVoteInsert(TxBegin(db), voteData)
     IN /\ db' = t1.db
        /\ tx' = [ pc |-> "inserted", voteData |-> voteData, writes |-> t1.writes,
                   vote |-> VoteRow(db, voteData) ]
  /\ UNCHANGED <<mem, last, now, reqs, client>>

\* ... then the tally update and COMMIT, or ROLLBACK
DbAddVoteFinish ==
  /\ tx.pc = "inserted"
  /\ LET t1 == [db |-> db, writes |-> tx.writes]
         d == AddVoteEnd(t1, AddVoteTally(t1, tx.voteData), tx.vote)
     IN /\ db' = d.store
        /\ last' = Call("addVote", tx.voteData, Undefined, d.ret)
  /\ tx' = [pc |-> "idle"]
  /\ UNCHANGED <<mem, now, reqs, client>>

\* Another connection reads the votes and the tallies of a proposal
DbReadVotes(proposalId) ==
  /\ last' = Call("getVotes", proposalId, Undefined,
                  Ok([ votes |-> DbGetVotes(db, proposalId),
                       proposal |-> DbGetProposal(db, proposalId) ]))
  /\ UNCHANGED <<mem, db, now, tx, reqs, client>>

\* createProposal on the relational store alone
DbCreateProposalOnly(proposalData) ==
  /\ db.serial.proposals <= MaxProposals
  /\ LET d == DbCreateProposal(db, proposalData)
     IN /\ db' = d.store
        /\ last' = Call("createProposal", proposalData, Undefined, d.ret)
  /\ UNCHANGED <<mem, now, tx, reqs, client>>

\* The wall clock moves (it may also be set back)
Tick ==
  /\ \E t \in 0..MaxTime : t # now /\ now' = t
  /\ UNCHANGED <<mem, db, last, tx, reqs, client>>

AddActivity(activityData) ==
  /\ mem.currentIds.activity <= MaxActs
  /\ LET m == MemAddActivity(mem, activityData, now)
         d == DbAddActivity(db, activityData, now)
     IN /\ mem' = m.store
        /\ db' = d.store
        /\ last' = Call("addActivity", activityData, m.ret, d.ret)
  /\ UNCHANGED <<now, tx, reqs, client>>

\* The limits a caller of the storage interface passes
StorageLimits == { Num(n) : n \in ((0 - 2)..(MaxActs + 1)) \cup {DefaultLimit} }

GetGroupActivities(groupId, limit) ==
  /\ \E d \in DbGetGroupActivities(db, groupId, limit) :
       last' = Call("getGroupActivities", [groupId |-> groupId, limit |-> limit],
                    MemGetGroupActivities(mem, groupId, limit), d)
  /\ UNCHANGED <<mem, db, now, tx, reqs, client>>

\* GET /api/groups/:id/activities?limit=
GetActivitiesRoute(id, q) ==
  /\ LET limit == RouteLimit(q)
         groupId == ParseInt(id).val
     IN \E d \in DbGetGroupActivities(db, groupId, limit) :
          last' = Call("GET activities", [groupId |-> groupId, limit |-> limit, query |-> q],
                       MemGetGroupActivities(mem, groupId, limit), d)
  /\ UNCHANGED <<mem, db, now, tx, reqs, client>>

CreateLoan(loanData) ==
  /\ mem.currentIds.loan <= MaxLoans
  /\ LET m == MemCreateLoan(mem, loanData)
         d == DbCreateLoan(db, loanData)
     IN /\ mem' = m.store
        /\ db' = d.store
        /\ last' = Call("createLoan", loanData, m.ret, d.ret)
  /\ UNCHANGED <<now, tx, reqs, client>>

AddGuarantor(guarantorData) ==
  /\ mem.currentIds.guarantor <= MaxGuarantors
  /\ LET m == MemAddGuarantor(mem, guarantorData)
         d == DbAddGuarantor(db, guarantorData)
     IN /\ mem' = m.store
        /\ db' = d.store
        /\ last' = Call("addGuarantor", guarantorData, m.ret, d.ret)
  /\ UNCHANGED <<now, tx, reqs, client>>

\* getLoanGuarantors, a read
GetLoanGuarantors(loanId) ==
  /\ last' = Call("getLoanGuarantors", loanId,
                  Ok(MemGetLoanGuarantors(mem, loanId)),
                  Ok(DbGetLoanGuarantors(db, loanId)))
  /\ UNCHANGED <<mem, db, now, tx, reqs, client>>

\* Partial<Loan>, Partial<Group>, Partial<Proposal> bodies of the update calls;
\* the type admits the object without fields
LoanUpdates == { [approved |-> TRUE], [repaid |-> TRUE], EmptyMap }
GroupUpdates == { [totalDeposits |-> 1], EmptyMap }
ProposalUpdates == { [executed |-> TRUE], EmptyMap }

UpdateLoan(id, data) ==
  /\ LET m == MemUpdateLoan(mem, id, data)
         d == DbUpdateLoan(db, id, data)
     IN /\ mem' = m.store
        /\ db' = d.store
        /\ last' = Call("updateLoan", [id |-> id, data |-> data], m.ret, d.ret)
  /\ UNCHANGED <<now, tx, reqs, client>>

UpdateGroup(id, data) ==
  /\ LET m == MemUpdateGroup(mem, id, data)
         d == DbUpdateGroup(db, id, data)
     IN /\ mem' = m.store
        /\ db' = d.store
        /\ last' = Call("updateGroup", [id |-> id, data |-> data], m.ret, d.ret)
  /\ UNCHANGED <<now, tx, reqs, client>>

UpdateProposal(id, data) ==
  /\ LET m == MemUpdateProposal(mem, id, data)
         d == DbUpdateProposal(db, id, data)
     IN /\ mem' = m.store
        /\ db' = d.store
        /\ last' = Call("updateProposal", [id |-> id, data |-> data], m.ret, d.ret)
  /\ UNCHANGED <<now, tx, reqs, client>>

\* One request to POST /api/proposals, handled to its response
PostProposalRequest(body) ==
  /\ mem.currentIds.proposal <= MaxProposals
  /\ LET m == PostProposal("mem", mem, body, now)
         d == PostProposal("db", db, body, now)
     IN /\ mem' = m.store
        /\ db' = d.store
        /\ last' = Call("POST proposals", body, m.ret, d.ret)
  /\ UNCHANGED <<now, tx, reqs, client>>

\* One request to POST /api/proposals/:id/votes, handled to its response
PostVoteRequest(id, body) ==
  /\ mem.currentIds.vote <= MaxVotes
  /\ db.serial.votes <= MaxVotes
  /\ LET m == PostVote("mem", mem, id, body, now)
         d == PostVote("db", db, id, body, now)
     IN /\ mem' = m.store
        /\ db' = d.store
        /\ last' = Call("POST votes", [id |-> id, body |-> body], m.ret, d.ret)
  /\ UNCHANGED <<now, tx, reqs, client>>

\* Request bodies and route parameters of the other endpoints: complete ones,
\* and ones with a required field left out
UserBodies ==
  { [address |-> <<"0", "A">>, groupId |-> Null, registered |-> FALSE],
    [groupId |-> Null, registered |-> FALSE] }

UserPatches == { [groupId |-> 1, registered |-> TRUE], EmptyMap }

GroupBodies == { [name |-> "g", admin |-> <<"0", "A">>], [name |-> "g"] }

MemberBodies == { [memberAddress |-> <<"0", "b">>], EmptyMap }

\* Vote bodies of one voter under two letter cases
VoteBodiesOfOne == { [voterAddress |-> <<"0", "a">>, vote |-> TRUE],
                     [voterAddress |-> <<"0", "A">>, vote |-> TRUE], [vote |-> TRUE] }

LoanBodies ==
  { [ borrowerAddress |-> <<"0", "A">>, amount |-> 1, dueDate |-> 1, repaid |-> FALSE,
      approved |-> FALSE, defaulted |-> FALSE ],
    [ borrowerAddress |-> <<"0", "A">>, amount |-> 1, dueDate |-> 1, repaid |-> FALSE,
      approved |-> FALSE, defaulted |-> FALSE, guarantors |-> << <<"0", "B">> >> ],
    [ borrowerAddress |-> <<"0", "A">>, amount |-> 1, repaid |-> FALSE,
      approved |-> FALSE, defaulted |-> FALSE ] }

LoanPatches == { [approved |-> TRUE], [repaid |-> TRUE], [defaulted |-> TRUE], EmptyMap }

\* One status change, and the body that changes nothing
LoanPatchesOfOne == { [repaid |-> TRUE], EmptyMap }

GuarantorPatches == { [approved |-> TRUE], EmptyMap }

GuarantorBodies == { [guarantorAddress |-> <<"0", "B">>], EmptyMap }

ProposalPatches == { [executed |-> TRUE], EmptyMap }

\* The records a store has given an id to
MemAllocated(s) ==
  (s.currentIds.user - 1) + (s.currentIds.group - 1) + (s.currentIds.groupMember - 1)
    + (s.currentIds.loan - 1) + (s.currentIds.guarantor - 1)
    + (s.currentIds.proposal - 1) + (s.currentIds.vote - 1)
    + (s.currentIds.activity - 1)

DbAllocated(s) ==
  (s.serial.users - 1) + (s.serial.groups - 1) + (s.serial.groupMembers - 1)
    + (s.serial.loans - 1) + (s.serial.guarantors - 1) + (s.serial.proposals - 1)
    + (s.serial.votes - 1) + (s.serial.activities - 1)

\* Requests are taken while the stores hold fewer than MaxRecords records
ApiBudget == MemAllocated(mem) < MaxRecords /\ DbAllocated(db) < MaxRecords

\* One request, handled to its response behind each store
Served(op, arg, m, d) ==
  /\ mem' = m.store
  /\ db' = d.store
  /\ last' = Call(op, arg, m.ret, d.ret)
  /\ UNCHANGED <<now, tx, reqs, client>>

Handled(op, arg, m, d) ==
  /\ ApiBudget
  /\ Served(op, arg, m, d)

PostUserRequest(body) ==
  Handled("POST users", body, PostUser("mem", mem, body), PostUser("db", db, body))

PatchUserRequest(address, body) ==
  Handled("PATCH users", [address |-> address, body |-> body],
          PatchUser("mem", mem, address, body), PatchUser("db", db, address, body))

PostGroupRequest(body) ==
  Handled("POST groups", body,
          PostGroup("mem", mem, body, now), PostGroup("db", db, body, now))

PostGroupMemberRequest(id, body) ==
  Handled("POST members", [id |-> id, body |-> body],
          PostGroupMember("mem", mem, id, body, now),
          PostGroupMember("db", db, id, body, now))

PostLoanRequest(body) ==
  Handled("POST loans", body,
          PostLoan("mem", mem, body, now), PostLoan("db", db, body, now))

PatchLoanRequest(id, body) ==
  Handled("PATCH loans", [id |-> id, body |-> body],
          PatchLoan("mem", mem, id, body, now), PatchLoan("db", db, id, body, now))

PostGuarantorRequest(id, body) ==
  Handled("POST guarantors", [id |-> id, body |-> body],
          PostGuarantor("mem", mem, id, body, now),
          PostGuarantor("db", db, id, body, now))

PatchGuarantorRequest(id, address, body) ==
  Handled("PATCH guarantors", [id |-> id, address |-> address, body |-> body],
          PatchGuarantor("mem", mem, id, address, body, now),
          PatchGuarantor("db", db, id, address, body, now))

PatchProposalRequest(id, body) ==
  Handled("PATCH proposals", [id |-> id, body |-> body],
          PatchProposal("mem", mem, id, body, now),
          PatchProposal("db", db, id, body, now))

\* The proposal and vote routes, taken within the same budget
BudgetedPostProposalRequest(body) == ApiBudget /\ PostProposalRequest(body)

BudgetedPostVoteRequest(id, body) == ApiBudget /\ PostVoteRequest(id, body)

NextUsers ==
  \/ \E u \in InsertUsers : CreateUser(u)
  \/ \E a \in Addresses, data \in UserUpdates : UpdateUser(a, data)

SpecUsers == Init /\ [][NextUsers]_vars

NextGroups ==
  \/ \E g \in InsertGroups, fault \in CreateGroupFaults : CreateGroup(g, fault)
  \/ \E gid \in 1..MaxGroups, a \in Addresses :
       AddGroupMember([groupId |-> gid, memberAddress |-> a])

SpecGroups == Init /\ [][NextGroups]_vars

NextVotes ==
  \/ \E p \in InsertProposals : CreateProposal(p)
  \/ \E v \in InsertVotes : AddVote(v)

SpecVotes == Init /\ [][NextVotes]_vars

NextVoteTx ==
  \/ \E p \in InsertProposals : DbCreateProposalOnly(p)
  \/ \E v \in InsertVotes : DbAddVoteBegin(v)
  \/ DbAddVoteFinish
  \/ \E p \in 1..MaxProposals : DbReadVotes(p)

SpecVoteTx == Init /\ [][NextVoteTx]_vars

\* The :id of the activities route, as the decimal text of a group id
GroupIdTexts == { <<"1">>, <<"2">> }

NextActivities ==
  \/ Tick
  \/ \E a \in InsertActivities : AddActivity(a)
  \/ \E g \in 1..MaxGroups, limit \in StorageLimits : GetGroupActivities(g, limit)
  \/ \E id \in GroupIdTexts, q \in QueryLimits : GetActivitiesRoute(id, q)

SpecActivities == Init /\ [][NextActivities]_vars

\* One body of each kind is enough to fill the stores the update calls act on
UpdatedGroups == { g \in InsertGroups : g.admin = <<"0", "A">> }
UpdatedProposals == { p \in InsertProposals : p.groupId = 1 }

NextUpdates ==
  \/ \E g \in UpdatedGroups : CreateGroup(g, "none")
  \/ \E l \in InsertLoans : CreateLoan(l)
  \/ \E p \in UpdatedProposals : CreateProposal(p)
  \/ \E id \in 1..(MaxGroups + 1), data \in GroupUpdates : UpdateGroup(id, data)
  \/ \E id \in 1..(MaxLoans + 1), data \in LoanUpdates : UpdateLoan(id, data)
  \/ \E id \in 1..(MaxProposals + 1), data \in ProposalUpdates : UpdateProposal(id, data)

SpecUpdates == Init /\ [][NextUpdates]_vars

NextLoans ==
  \/ \E loanData \in InsertLoans : CreateLoan(loanData)
  \/ \E guarantorData \in InsertGuarantors : AddGuarantor(guarantorData)
  \/ \E loanId \in 1..2 : GetLoanGuarantors(loanId)

SpecLoans == Init /\ [][NextLoans]_vars

\* Every endpoint that writes
NextApi ==
  \/ \E body \in UserBodies : PostUserRequest(body)
  \/ \E body \in UserPatches : PatchUserRequest(<<"0", "a">>, body)
  \/ \E body \in GroupBodies : PostGroupRequest(body)
  \/ \E id \in {<<"1">>, <<"2">>, <<"x">>}, body \in MemberBodies :
       PostGroupMemberRequest(id, body)
  \/ \E body \in LoanBodies : PostLoanRequest(body)
  \/ \E id \in {<<"1">>, <<"2">>}, body \in LoanPatchesOfOne :
       PatchLoanRequest(id, body)
  \/ \E id \in {<<"1">>, <<"2">>}, body \in GuarantorBodies :
       PostGuarantorRequest(id, body)
  \/ \E body \in GuarantorPatches : PatchGuarantorRequest(<<"1">>, <<"0", "b">>, body)
  \/ \E body \in ProposalBodies : BudgetedPostProposalRequest(body)
  \/ \E body \in ProposalPatches : PatchProposalRequest(<<"1">>, body)
  \/ \E body \in VoteBodiesOfOne : BudgetedPostVoteRequest(<<"1">>, body)

SpecApi == Init /\ [][NextApi]_vars

\* The endpoints that write, with the storage calls on the activity log
NextLog ==
  \/ NextApi
  \/ \E a \in InsertActivities : AddActivity(a)
  \/ GetGroupActivities(1, Num(DefaultLimit))

SpecLog == Init /\ [][NextLog]_vars

\* The two routes that make memberships, for every address as admin and as joiner
NextApiGroups ==
  \/ \E body \in GroupBodies \cup { [name |-> "g", admin |-> a] : a \in Addresses } :
       PostGroupRequest(body)
  \/ \E id \in {<<"1">>, <<"2">>, <<"x">>},
        body \in MemberBodies \cup { [memberAddress |-> a] : a \in Addresses } :
       PostGroupMemberRequest(id, body)

SpecApiGroups == Init /\ [][NextApiGroups]_vars

NextApiVotes ==
  \/ \E body \in ProposalBodies : PostProposalRequest(body)
  \/ \E id \in IdTexts, body \in VoteBodies : PostVoteRequest(id, body)

SpecApiVotes == Init /\ [][NextApiVotes]_vars

----------------------------------------------------------------------------
(* C1: after createUser with address A returned a record, getUser of every   *)
(* case-variant of A returns that record (same id, same stored address), in  *)
(* MemStorage and in DatabaseStorage.                                        *)

C1_GetUserAnyCase ==
  last.op = "createUser" =>
    /\ last.mem.kind = "ok"
    /\ \A v \in CaseVariants(last.arg.address) :
         /\ MemGetUser(mem, v) = last.mem
         /\ last.db.kind = "ok" => DbGetUser(db, v) = last.db

\* a user created under an upper-case address, looked up in both stores
C1_Witness ==
  /\ last.op = "createUser"
  /\ last.arg.address # ToLowerCase(last.arg.address)
  /\ last.mem.kind = "ok"
  /\ last.db.kind = "ok"
  /\ Cardinality(CaseVariants(last.arg.address)) > 1

----------------------------------------------------------------------------
(* C2: right after createGroup(g) returned a group with id G, isGroupMember  *)
(* (G, v) is true for every case-variant v of g.admin, and the admin is the  *)
(* first entry of G's member list, in both stores.                           *)

C2_MemAdminFirst ==
  (last.op = "createGroup" /\ last.mem.kind = "ok") =>
    LET G == last.mem.val.id
        list == MemMemberList(mem, G)
    IN /\ \A v \in CaseVariants(last.arg.data.admin) : MemIsGroupMember(mem, G, v)
       /\ list # <<>>
       /\ ToLowerCase(list[1].memberAddress) = ToLowerCase(last.arg.data.admin)

C2_DbAdminFirst ==
  (last.op = "createGroup" /\ last.db.kind = "ok") =>
    LET G == last.db.val.id
        list == DbMemberList(db, G)
    IN /\ \A v \in CaseVariants(last.arg.data.admin) : DbIsGroupMember(db, G, v)
       /\ list # <<>>
       /\ ToLowerCase(list[1].memberAddress) = ToLowerCase(last.arg.data.admin)

C2_AdminIsFirstMember == C2_MemAdminFirst /\ C2_DbAdminFirst

----------------------------------------------------------------------------
(* C3: for every existing proposal P and vote value v, addVote({proposalId:  *)
(* P, vote: v}) increments exactly one tally of P by exactly 1 (votesYes     *)
(* when v is true, votesNo when it is false) and leaves the other tally and  *)
(* every other proposal unchanged, in both stores.                           *)

\* The proposals after one vote v on proposal P was counted
C3_MemTallied(proposals, P, v) ==
  [proposals EXCEPT ![P] = IF v THEN [@ EXCEPT !.votesYes = @ + 1]
                                ELSE [@ EXCEPT !.votesNo = @ + 1]]

C3_DbTallied(rows, P, v) ==
  [i \in DOMAIN rows |->
     IF rows[i].id # P THEN rows[i]
     ELSE IF v THEN [rows[i] EXCEPT !.votesYes = @ + 1]
          ELSE [rows[i] EXCEPT !.votesNo = @ + 1]]

C3_MemAddVoteOneTally ==
  [][ (last'.op = "addVote" /\ MapHas(mem.proposals, last'.arg.proposalId)) =>
        mem'.proposals = C3_MemTallied(mem.proposals, last'.arg.proposalId,
                                    last'.arg.vote) ]_vars

C3_DbAddVoteOneTally ==
  [][ (last'.op = "addVote" /\ DbGetProposal(db, last'.arg.proposalId).kind = "ok") =>
        db'.proposals = C3_DbTallied(db.proposals, last'.arg.proposalId,
                                  last'.arg.vote) ]_vars

C3_AddVoteOneTally == C3_MemAddVoteOneTally /\ C3_DbAddVoteOneTally

----------------------------------------------------------------------------
(* C7: in the relational store createGroup is atomic: after it finished,     *)
(* with a group or with an error, the group row and the admin's membership   *)
(* row were both added or neither was; a failed membership insert leaves no  *)
(* group row behind.                                                         *)

C7_CreateGroupAtomic ==
  [][ last'.op = "createGroup" =>
        \/ /\ last'.db.kind = "ok"
           /\ db'.groups = Append(db.groups, last'.db.val)
           /\ Len(db'.groupMembers) = Len(db.groupMembers) + 1
           /\ LET row == db'.groupMembers[Len(db'.groupMembers)]
              IN /\ row.groupId = last'.db.val.id
                 /\ row.memberAddress = ToLowerCase(last'.arg.data.admin)
           /\ SubSeq(db'.groupMembers, 1, Len(db.groupMembers)) = db.groupMembers
        \/ /\ last'.db.kind = "throw"
           /\ db'.groups = db.groups
           /\ db'.groupMembers = db.groupMembers ]_vars

\* the membership insert failed after the group insert went through
C7_Witness ==
  /\ last.op = "createGroup"
  /\ last.arg.fault = "insertMember"
  /\ last.db.kind = "throw"
  /\ last.mem.kind = "ok"
  /\ Len(db.groups) < Cardinality(DOMAIN mem.groups)

----------------------------------------------------------------------------
(* C8: in the relational store addVote is atomic: the vote row is stored and *)
(* the proposal's matching tally incremented, or neither; a failed tally     *)
(* update leaves no vote row behind, and no other transaction sees a vote    *)
(* row without its tally. Every state of the committed tables, also one      *)
(* between the two statements of a running addVote, shows for each proposal  *)
(* id as many yes and no rows as the proposal's tallies count, and no row    *)
(* for a proposal id without a proposal.                                     *)

C8_DbCountVotes(s, proposalId, v) ==
  Len(SelectSeq(s.votes, LAMBDA r : r.proposalId = proposalId /\ r.vote = v))

C8_AddVoteAtomic ==
  /\ \A p \in 1..(MaxProposals + 1) :
       LET proposal == DbGetProposal(db, p)
       IN IF proposal.kind = "ok"
          THEN /\ C8_DbCountVotes(db, p, TRUE) = proposal.val.votesYes
               /\ C8_DbCountVotes(db, p, FALSE) = proposal.val.votesNo
          ELSE DbGetVotes(db, p) = <<>>
  /\ (last.op = "addVote" /\ last.db.kind = "ok") =>
       \E i \in DOMAIN db.votes : db.votes[i] = last.db.val

\* addVote on an existing proposal ended with an error after its insert ran
C8_Witness ==
  /\ last.op = "addVote"
  /\ last.db.kind = "throw"
  /\ tx.pc = "idle"
  /\ DbGetProposal(db, last.arg.proposalId).kind = "ok"
  /\ db.serial.votes > 1
  /\ DbGetVotes(db, last.arg.proposalId) = <<>>

----------------------------------------------------------------------------
(* C4: with requests handled one at a time, POST /api/proposals/:id/votes    *)
(* from a voter address (in any letter case) that already has a stored vote  *)
(* on that proposal is answered 400 and changes neither the stored votes nor *)
(* votesYes/votesNo; so there is at most one vote per (proposal, voter).     *)

C4_MemVoted(s, id, body) ==
  /\ ValidVote(id, body)
  /\ \E i \in DOMAIN MemGetVotes(s, ParseInt(id).val) :
       ToLowerCase(MemGetVotes(s, ParseInt(id).val)[i].voterAddress)
         = ToLowerCase(body.voterAddress)

C4_DbVoted(s, id, body) ==
  /\ ValidVote(id, body)
  /\ \E i \in DOMAIN DbGetVotes(s, ParseInt(id).val) :
       ToLowerCase(DbGetVotes(s, ParseInt(id).val)[i].voterAddress)
         = ToLowerCase(body.voterAddress)

C4_OneVoteEach(votes) ==
  \A i, j \in DOMAIN votes :
    (i # j /\ votes[i].proposalId = votes[j].proposalId) =>
      ToLowerCase(votes[i].voterAddress) # ToLowerCase(votes[j].voterAddress)

C4_SecondVoteRejected ==
  /\ [][ last'.op = "POST votes" =>
           /\ C4_MemVoted(mem, last'.arg.id, last'.arg.body) =>
                /\ last'.mem.status = 400
                /\ mem'.votes = mem.votes
                /\ mem'.proposals = mem.proposals
           /\ C4_DbVoted(db, last'.arg.id, last'.arg.body) =>
                /\ last'.db.status = 400
                /\ db'.votes = db.votes
                /\ db'.proposals = db.proposals ]_vars
  /\ [](\A p \in DOMAIN mem.votes : C4_OneVoteEach(mem.votes[p]))
  /\ []C4_OneVoteEach(db.votes)

\* a second vote, sent under another letter case of the address, was refused
C4_Witness ==
  /\ last.op = "POST votes"
  /\ last.mem.status = 400
  /\ ValidVote(last.arg.id, last.arg.body)
  /\ \E i \in DOMAIN MemGetVotes(mem, ParseInt(last.arg.id).val) :
       LET stored == MemGetVotes(mem, ParseInt(last.arg.id).val)[i].voterAddress
       IN /\ stored # last.arg.body.voterAddress
          /\ ToLowerCase(stored) = ToLowerCase(last.arg.body.voterAddress)

----------------------------------------------------------------------------
(* C5: getGroupActivities(groupId, limit) returns at most limit records,     *)
(* every one an activity of that group, ordered by timestamp from the most   *)
(* recent to the oldest, in both stores and for the limit that GET           *)
(* /api/groups/:id/activities parses from ?limit=.                           *)

C5_IsRead == last.op \in {"getGroupActivities", "GET activities"}

\* What the claim says of one returned list
C5_Listed(ret, groupId, limit) ==
  ret.kind = "ok" =>
    /\ Len(ret.val) <= limit
    /\ \A i \in DOMAIN ret.val : ret.val[i].groupId = groupId
    /\ \A i, j \in DOMAIN ret.val :
         i < j => ret.val[i].timestamp >= ret.val[j].timestamp

\* as claimed: for every integer limit
C5_AtMostLimitAnyInteger ==
  (C5_IsRead /\ ~last.arg.limit.nan) =>
    /\ C5_Listed(last.mem, last.arg.groupId, last.arg.limit.val)
    /\ C5_Listed(last.db, last.arg.groupId, last.arg.limit.val)

\* as amended: for every integer limit that is not negative
C5_AtMostLimit ==
  (C5_IsRead /\ ~last.arg.limit.nan /\ last.arg.limit.val >= 0) =>
    /\ C5_Listed(last.mem, last.arg.groupId, last.arg.limit.val)
    /\ C5_Listed(last.db, last.arg.groupId, last.arg.limit.val)

\* the route cut two activities of a group, stored oldest first, down to the
\* most recent one
C5_Witness ==
  /\ last.op = "GET activities"
  /\ last.arg.limit = Num(1)
  /\ last.mem.kind = "ok" /\ last.db.kind = "ok"
  /\ Len(last.mem.val) = 1 /\ Len(last.db.val) = 1
  /\ LET stored == GetOrEmpty(mem.activities, last.arg.groupId)
     IN /\ Len(stored) >= 2
        /\ stored[1].timestamp < stored[2].timestamp
        /\ last.mem.val[1] = stored[2]

----------------------------------------------------------------------------
(* C6: updateLoan, updateGroup and updateProposal called with an id that     *)
(* does not exist return undefined without throwing and leave the whole      *)
(* store unchanged: no record is created or modified.                        *)

C6_MemHas(s, op, id) ==
  CASE op = "updateLoan" -> MapHas(s.loans, id)
    [] op = "updateGroup" -> MapHas(s.groups, id)
    [] op = "updateProposal" -> MapHas(s.proposals, id)

C6_DbHas(s, op, id) ==
  CASE op = "updateLoan" -> DbGetLoan(s, id).kind = "ok"
    [] op = "updateGroup" -> DbGetGroup(s, id).kind = "ok"
    [] op = "updateProposal" -> DbGetProposal(s, id).kind = "ok"

C6_UpdateMissing ==
  [][ last'.op \in {"updateLoan", "updateGroup", "updateProposal"} =>
        /\ ~C6_MemHas(mem, last'.op, last'.arg.id) =>
             (last'.mem = Undefined /\ mem' = mem)
        /\ ~C6_DbHas(db, last'.op, last'.arg.id) =>
             (last'.db = Undefined /\ db' = db) ]_vars

\* the statement for MemStorage alone
C6_MemUpdateMissing ==
  [][ last'.op \in {"updateLoan", "updateGroup", "updateProposal"} =>
        (~C6_MemHas(mem, last'.op, last'.arg.id) =>
           (last'.mem = Undefined /\ mem' = mem)) ]_vars

\* the statement for DatabaseStorage alone, for update data that sets a column
C6_DbUpdateMissingWhenSet ==
  [][ /\ last'.op \in {"updateLoan", "updateGroup", "updateProposal"}
      /\ last'.arg.data # EmptyMap
      => (~C6_DbHas(db, last'.op, last'.arg.id) =>
            (last'.db = Undefined /\ db' = db)) ]_vars

\* an update of a loan id that is not there, in stores that hold a loan
C6_Witness ==
  /\ last.op = "updateLoan"
  /\ last.mem = Undefined /\ last.db = Undefined
  /\ ~MapHas(mem.loans, last.arg.id)
  /\ MapHas(mem.loans, 1)
  /\ Len(db.loans) >= 1

----------------------------------------------------------------------------
(* C9: after any sequence of storage operations, every address field of      *)
(* every stored record (user.address, group.admin, groupMember.memberAddress,*)
(* loan.borrowerAddress, guarantor.guarantorAddress, vote.voterAddress,      *)
(* activity.userAddress) is lowercase, in both stores.                       *)

C9_IsLower(a) == a = ToLowerCase(a)

C9_MemLower(s) ==
  /\ \A k \in DOMAIN s.users : C9_IsLower(s.users[k].address)
  /\ \A k \in DOMAIN s.groups : C9_IsLower(s.groups[k].admin)
  /\ \A k \in DOMAIN s.groupMembers : \A i \in DOMAIN s.groupMembers[k] :
       C9_IsLower(s.groupMembers[k][i].memberAddress)
  /\ \A k \in DOMAIN s.loans : C9_IsLower(s.loans[k].borrowerAddress)
  /\ \A k \in DOMAIN s.guarantors : \A i \in DOMAIN s.guarantors[k] :
       C9_IsLower(s.guarantors[k][i].guarantorAddress)
  /\ \A k \in DOMAIN s.votes : \A i \in DOMAIN s.votes[k] :
       C9_IsLower(s.votes[k][i].voterAddress)
  /\ \A k \in DOMAIN s.activities : \A i \in DOMAIN s.activities[k] :
       C9_IsLower(s.activities[k][i].userAddress)

C9_DbLower(s) ==
  /\ \A i \in DOMAIN s.users : C9_IsLower(s.users[i].address)
  /\ \A i \in DOMAIN s.groups : C9_IsLower(s.groups[i].admin)
  /\ \A i \in DOMAIN s.groupMembers : C9_IsLower(s.groupMembers[i].memberAddress)
  /\ \A i \in DOMAIN s.loans : C9_IsLower(s.loans[i].borrowerAddress)
  /\ \A i \in DOMAIN s.guarantors : C9_IsLower(s.guarantors[i].guarantorAddress)
  /\ \A i \in DOMAIN s.votes : C9_IsLower(s.votes[i].voterAddress)
  /\ \A i \in DOMAIN s.activities : C9_IsLower(s.activities[i].userAddress)

\* the part of the statement that is about DatabaseStorage alone
C9_DbAddressesLowercase == C9_DbLower(db)

C9_AddressesLowercase == C9_MemLower(mem) /\ C9_DbLower(db)

----------------------------------------------------------------------------
(* C10: no operation removes a record: for every entity kind the set of      *)
(* record identifiers present in the store only grows from one state to the  *)
(* next, in both stores.                                                     *)

C10_ListIds(lists) ==
  UNION { { lists[k][i].id : i \in DOMAIN lists[k] } : k \in DOMAIN lists }

C10_RowIds(rows) == { rows[i].id : i \in DOMAIN rows }

C10_MemIds(s) ==
  [ users |-> { s.users[k].id : k \in DOMAIN s.users },
    groups |-> DOMAIN s.groups,
    groupMembers |-> C10_ListIds(s.groupMembers),
    loans |-> DOMAIN s.loans,
    guarantors |-> C10_ListIds(s.guarantors),
    proposals |-> DOMAIN s.proposals,
    votes |-> C10_ListIds(s.votes),
    activities |-> C10_ListIds(s.activities) ]

C10_DbIds(s) ==
  [ users |-> C10_RowIds(s.users), groups |-> C10_RowIds(s.groups),
    groupMembers |-> C10_RowIds(s.groupMembers), loans |-> C10_RowIds(s.loans),
    guarantors |-> C10_RowIds(s.guarantors), proposals |-> C10_RowIds(s.proposals),
    votes |-> C10_RowIds(s.votes), activities |-> C10_RowIds(s.activities) ]

C10_Kinds ==
  { "users", "groups", "groupMembers", "loans", "guarantors", "proposals",
    "votes", "activities" }

\* the part of the statement that is about DatabaseStorage alone
C10_DbRecordsOnlyGrow ==
  [][\A k \in C10_Kinds : C10_DbIds(db)[k] \subseteq C10_DbIds(db')[k]]_vars

C10_RecordsOnlyGrow ==
  [][\A k \in C10_Kinds :
       /\ C10_MemIds(mem)[k] \subseteq C10_MemIds(mem')[k]
       /\ C10_DbIds(db)[k] \subseteq C10_DbIds(db')[k]]_vars

----------------------------------------------------------------------------
(* C11: the activity log is append-only: once addActivity has stored an      *)
(* activity, no later storage operation or API request changes any field of  *)
(* it or its position relative to earlier activities of the same group; only *)
(* addActivity adds entries.                                                 *)

C11_IsPrefix(old, new) == Len(old) <= Len(new) /\ SubSeq(new, 1, Len(old)) = old

\* The storage call addActivity, and the routes whose handler calls it
C11_Loggers ==
  { "addActivity", "POST groups", "POST members", "POST loans", "PATCH loans",
    "POST guarantors", "PATCH guarantors", "POST proposals", "PATCH proposals",
    "POST votes" }

C11_AppendOnly ==
  [][ /\ \A g \in DOMAIN mem.activities :
           /\ g \in DOMAIN mem'.activities
           /\ C11_IsPrefix(mem.activities[g], mem'.activities[g])
      /\ C11_IsPrefix(db.activities, db'.activities)
      /\ last'.op \notin C11_Loggers =>
           mem'.activities = mem.activities /\ db'.activities = db.activities ]_vars

\* the log of group 1, holding an activity a route wrote and one a storage call
\* wrote, has been read
C11_Witness ==
  /\ last.op = "getGroupActivities"
  /\ 1 \in DOMAIN mem.activities
  /\ \E i, j \in DOMAIN mem.activities[1] :
       /\ mem.activities[1][i].activityType = "create_group"
       /\ mem.activities[1][j].activityType = "join_group"
  /\ Len(db.activities) >= 2

----------------------------------------------------------------------------
(* C12: for every endpoint that validates its body against an insert schema  *)
(* (POST users, groups, members, loans, guarantors, proposals, votes), a     *)
(* request that fails validation is answered 400 with the validation message *)
(* and makes no storage call: both stores are unchanged.                     *)

C12_FailsValidation(op, arg) ==
  \/ op = "POST users" /\ ~ValidUser(arg)
  \/ op = "POST groups" /\ ~ValidGroup(arg)
  \/ op = "POST members" /\ ~ValidGroupMember(arg.id, arg.body)
  \/ op = "POST loans" /\ ~ValidLoan(arg)
  \/ op = "POST guarantors" /\ ~ValidGuarantor(arg.id, arg.body)
  \/ op = "POST proposals" /\ ~ValidProposal(arg)
  \/ op = "POST votes" /\ ~ValidVote(arg.id, arg.body)

C12_InvalidIs400 ==
  [][ C12_FailsValidation(last'.op, last'.arg) =>
        /\ last'.mem = Reply(400, "validation")
        /\ last'.db = Reply(400, "validation")
        /\ mem' = mem
        /\ db' = db ]_vars

\* a member body without memberAddress was refused for a group that exists
C12_Witness ==
  /\ last.op = "POST members"
  /\ ParseInt(last.arg.id) = Num(1)
  /\ ~ValidGroupMember(last.arg.id, last.arg.body)
  /\ MemGetGroup(mem, 1).kind = "ok"
  /\ DbGetGroup(db, 1).kind = "ok"
  /\ last.mem.status = 400
  /\ last.db.status = 400

----------------------------------------------------------------------------
(* C13: every request that targets a missing resource (PATCH of a            *)
(* nonexistent user, loan, proposal or guarantor; POST of a member to a      *)
(* nonexistent group, of a guarantor to a nonexistent loan, of a vote to a   *)
(* nonexistent proposal) is answered 404 and leaves the store unchanged,     *)
(* the activity log included.                                                *)

C13_MemMissing(s, op, arg) ==
  \/ op = "PATCH users" /\ MemGetUser(s, arg.address).kind = "undefined"
  \/ op = "PATCH loans" /\ MemGetLoan(s, ParseInt(arg.id).val).kind = "undefined"
  \/ op = "PATCH proposals" /\ MemGetProposal(s, ParseInt(arg.id).val).kind = "undefined"
  \/ /\ op = "PATCH guarantors"
     /\ \A i \in DOMAIN MemGetLoanGuarantors(s, ParseInt(arg.id).val) :
          ToLowerCase(MemGetLoanGuarantors(s, ParseInt(arg.id).val)[i].guarantorAddress)
            # ToLowerCase(arg.address)
  \/ /\ op = "POST members"
     /\ ValidGroupMember(arg.id, arg.body)
     /\ MemGetGroup(s, ParseInt(arg.id).val).kind = "undefined"
  \/ /\ op = "POST guarantors"
     /\ ValidGuarantor(arg.id, arg.body)
     /\ MemGetLoan(s, ParseInt(arg.id).val).kind = "undefined"
  \/ /\ op = "POST votes"
     /\ ValidVote(arg.id, arg.body)
     /\ MemGetProposal(s, ParseInt(arg.id).val).kind = "undefined"

C13_DbMissing(s, op, arg) ==
  \/ op = "PATCH users" /\ DbGetUser(s, arg.address).kind = "undefined"
  \/ op = "PATCH loans" /\ DbGetLoan(s, ParseInt(arg.id).val).kind = "undefined"
  \/ op = "PATCH proposals" /\ DbGetProposal(s, ParseInt(arg.id).val).kind = "undefined"
  \/ /\ op = "PATCH guarantors"
     /\ \A i \in DOMAIN DbGetLoanGuarantors(s, ParseInt(arg.id).val) :
          DbGetLoanGuarantors(s, ParseInt(arg.id).val)[i].guarantorAddress
            # ToLowerCase(arg.address)
  \/ /\ op = "POST members"
     /\ ValidGroupMember(arg.id, arg.body)
     /\ DbGetGroup(s, ParseInt(arg.id).val).kind = "undefined"
  \/ /\ op = "POST guarantors"
     /\ ValidGuarantor(arg.id, arg.body)
     /\ DbGetLoan(s, ParseInt(arg.id).val).kind = "undefined"
  \/ /\ op = "POST votes"
     /\ ValidVote(arg.id, arg.body)
     /\ DbGetProposal(s, ParseInt(arg.id).val).kind = "undefined"

\* the statement for MemStorage alone
C13_MemMissingIs404 ==
  [][ C13_MemMissing(mem, last'.op, last'.arg) =>
        last'.mem.status = 404 /\ mem' = mem ]_vars

\* the statement for DatabaseStorage alone, for requests other than a PATCH
\* whose body sets no column
C13_DbMissingIs404WhenSet ==
  [][ /\ C13_DbMissing(db, last'.op, last'.arg)
      /\ ~(last'.op \in {"PATCH users", "PATCH loans", "PATCH proposals",
                         "PATCH guarantors"} /\ last'.arg.body = EmptyMap)
      => last'.db.status = 404 /\ db' = db ]_vars

\* C13: a request that names a missing record is answered 404 by both stores
\* and writes nothing
C13_MissingIs404 ==
  [][ /\ C13_MemMissing(mem, last'.op, last'.arg) =>
           last'.mem.status = 404 /\ mem' = mem
      /\ C13_DbMissing(db, last'.op, last'.arg) =>
           last'.db.status = 404 /\ db' = db ]_vars

----------------------------------------------------------------------------
(* C14: a user has one group membership at a time: after any sequence of     *)
(* POST /api/groups and POST /api/groups/:id/members requests, every address *)
(* is a member of at most one group.                                         *)

C14_MemGroupsOf(s, address) ==
  { g \in DOMAIN s.groupMembers : MemIsGroupMember(s, g, address) }

C14_DbGroupsOf(s, address) ==
  { s.groupMembers[i].groupId : i \in { j \in DOMAIN s.groupMembers :
                                          DbIsGroupMember(s, s.groupMembers[j].groupId, address) } }

\* C14: in both stores every address is a member of at most one group
C14_OneGroupPerAddress ==
  \A address \in Addresses :
    /\ Cardinality(C14_MemGroupsOf(mem, address)) <= 1
    /\ Cardinality(C14_DbGroupsOf(db, address)) <= 1

----------------------------------------------------------------------------
(* Calls and requests in flight.  An async function runs from one await to  *)
(* the next without giving way; a storage method reads and writes the store *)
(* in the part that runs when it is called or resumed.  A call or request   *)
(* in flight is a record holding the await it is suspended at (pc) and its  *)
(* local variables.                                                         *)

\* MemStorage.addVote up to `await this.getProposal(voteData.proposalId)`:
\* the vote is pushed and the proposal is read
MemAddVoteStart(s, voteData) ==
  LET id == s.currentIds.vote
      vote == [ id |-> id, proposalId |-> voteData.proposalId,
                voterAddress |-> voteData.voterAddress, vote |-> voteData.vote ]
      votes == GetOrEmpty(s.votes, voteData.proposalId)
      s1 == [s EXCEPT !.currentIds.vote = id + 1,
                      !.votes = MapSet(s.votes, voteData.proposalId,
                                       Append(votes, vote))]
  IN [ store |-> s1,
       call |-> [ pc |-> "getProposal", voteData |-> voteData, vote |-> vote,
                  proposal |-> MemGetProposal(s1, voteData.proposalId),
                  data |-> EmptyMap, ret |-> Undefined ] ]

\* addVote raising the tally that is stored when it writes, not the one it read
MemAddVoteResumeFresh(s, call) ==
  IF call.pc = "getProposal"
  THEN IF call.proposal.kind = "ok"
       THEN [ store |-> s,
              call |-> [call EXCEPT
                          !.pc = "updateProposal",
                          !.data = [ votesYes |-> IF call.voteData.vote
                                                  THEN call.proposal.val.votesYes + 1
                                                  ELSE call.proposal.val.votesYes,
                                     votesNo |-> IF call.voteData.vote
                                                 THEN call.proposal.val.votesNo
                                                 ELSE call.proposal.val.votesNo + 1 ],
                          !.proposal = MemGetProposal(s, call.voteData.proposalId)] ]
       ELSE [store |-> s, call |-> [call EXCEPT !.pc = "return", !.ret = Ok(call.vote)]]
  ELSE LET stored == MemGetProposal(s, call.voteData.proposalId)
       IN [ store |-> IF stored.kind = "undefined" THEN s
                      ELSE [s EXCEPT !.proposals =
                              MapSet(s.proposals, call.voteData.proposalId,
                                     [stored.val EXCEPT
                                        !.votesYes = IF call.voteData.vote THEN @ + 1 ELSE @,
                                        !.votesNo = IF call.voteData.vote THEN @ ELSE @ + 1])],
            call |-> [call EXCEPT !.pc = "return", !.ret = Ok(call.vote)] ]

\* MemStorage.addVote resumed at the await it is suspended at
MemAddVoteResume(s, call) ==
  IF call.pc = "getProposal"
  THEN \* `if (proposal) { ...; await this.updateProposal(id, { votesYes, votesNo }) }`:
       \* updateProposal runs up to its `await this.getProposal(id)`
       IF call.proposal.kind = "ok"
       THEN LET votesYes == IF call.voteData.vote THEN call.proposal.val.votesYes + 1
                            ELSE call.proposal.val.votesYes
                votesNo == IF ~call.voteData.vote THEN call.proposal.val.votesNo + 1
                           ELSE call.proposal.val.votesNo
            IN [ store |-> s,
                 call |-> [call EXCEPT
                             !.pc = "updateProposal",
                             !.data = [votesYes |-> votesYes, votesNo |-> votesNo],
                             !.proposal = MemGetProposal(s, call.voteData.proposalId)] ]
       ELSE [store |-> s, call |-> [call EXCEPT !.pc = "return", !.ret = Ok(call.vote)]]
  ELSE \* updateProposal after its await: `{ ...proposal, ...data }` is stored,
       \* then addVote returns the vote
       [ store |-> IF call.proposal.kind = "undefined" THEN s
                   ELSE [s EXCEPT !.proposals =
                           MapSet(s.proposals, call.voteData.proposalId,
                                  Spread(call.proposal.val, call.data))],
         call |-> [call EXCEPT !.pc = "return", !.ret = Ok(call.vote)] ]

\* DatabaseStorage.addVote: one transaction, committed or rolled back as a whole
DbAddVoteCall(s, voteData) ==
  LET d == DbAddVote(s, voteData)
  IN [ store |-> d.store,
       call |-> [ pc |-> "return", voteData |-> voteData, vote |-> d.ret,
                  proposal |-> Undefined, data |-> EmptyMap, ret |-> d.ret ] ]

StorageAddVoteStart(K, s, voteData) ==
  IF K = "mem" THEN MemAddVoteStart(s, voteData) ELSE DbAddVoteCall(s, voteData)

\* A request in flight: the awaited call (pc), its result (got), the handler's
\* locals (subject: the group or proposal found, made: the row written, call: a
\* storage call still running) and the response once sent
Request(route, id, body, pc, got) ==
  [ route |-> route, id |-> id, body |-> body, pc |-> pc, got |-> got,
    subject |-> Undefined, made |-> Undefined, call |-> Idle, reply |-> Undefined ]

\* res.status(n).json(body) ends the request
Respond(s, q, status, body) ==
  [store |-> s, req |-> [q EXCEPT !.pc = "done", !.reply = Reply(status, body)]]

\* `await storage.f(...)`: the call is made, the handler waits for its result
Await(d, q, pc) ==
  [store |-> d.store, req |-> [q EXCEPT !.pc = pc, !.got = d.ret]]

\* POST /api/groups/:id/members up to its first await
PostGroupMemberStart(K, s, id, body) ==
  LET q == Request("POST members", id, body, "getGroup", Undefined)
  IN IF ~ValidGroupMember(id, body) THEN Respond(s, q, 400, "validation")
     ELSE Await([store |-> s, ret |-> StorageGetGroup(K, s, ParseInt(id).val)],
                q, "getGroup")

\* POST /api/groups/:id/members resumed at the await it is suspended at
PostGroupMemberResume(K, s, q, time) ==
  LET data == [groupId |-> ParseInt(q.id).val, memberAddress |-> q.body.memberAddress]
      failed == Respond(s, q, 500, "Failed to add group member")
  IN CASE q.pc = "getGroup" ->
            IF q.got.kind = "undefined" THEN Respond(s, q, 404, "Group not found")
            ELSE Await([ store |-> s,
                         ret |-> StorageIsGroupMember(K, s, q.got.val.id,
                                                      data.memberAddress) ],
                       [q EXCEPT !.subject = q.got], "isGroupMember")
       [] q.pc = "isGroupMember" ->
            IF q.got THEN Respond(s, q, 400, "Already a member of this group")
            ELSE Await(StorageAddGroupMember(K, s, data), q, "addGroupMember")
       [] q.pc = "addGroupMember" ->
            IF q.got.kind = "throw" THEN failed
            ELSE Await(StorageUpdateUser(K, s, data.memberAddress,
                         [groupId |-> q.subject.val.id, registered |-> TRUE]),
                       [q EXCEPT !.made = q.got], "updateUser")
       [] q.pc = "updateUser" ->
            IF q.got.kind = "throw" THEN failed
            ELSE Await(StorageAddActivity(K, s,
                         [ groupId |-> q.subject.val.id,
                           userAddress |-> data.memberAddress,
                           activityType |-> "join_group" ], time),
                       q, "addActivity")
       [] OTHER ->
            IF q.got.kind = "throw" THEN failed
            ELSE Respond(s, q, 201, q.made.val)

\* POST /api/proposals/:id/votes up to its first await
PostVoteStart(K, s, id, body) ==
  LET q == Request("POST votes", id, body, "getProposal", Undefined)
  IN IF ~ValidVote(id, body) THEN Respond(s, q, 400, "validation")
     ELSE Await([store |-> s, ret |-> StorageGetProposal(K, s, ParseInt(id).val)],
                q, "getProposal")

\* POST /api/proposals/:id/votes resumed at the await it is suspended at
PostVoteResume(K, s, q, time) ==
  LET data == [ proposalId |-> ParseInt(q.id).val, voterAddress |-> q.body.voterAddress,
                vote |-> q.body.vote ]
      failed == Respond(s, q, 500, "Failed to add vote")
  IN CASE q.pc = "getProposal" ->
            IF q.got.kind = "undefined" THEN Respond(s, q, 404, "Proposal not found")
            ELSE Await([ store |-> s,
                         ret |-> StorageHasVoted(K, s, q.got.val.id, data.voterAddress) ],
                       [q EXCEPT !.subject = q.got], "hasVoted")
       [] q.pc = "hasVoted" ->
            IF q.got THEN Respond(s, q, 400, "Already voted on this proposal")
            ELSE LET v == StorageAddVoteStart(K, s, data)
                 IN [ store |-> v.store,
                      req |-> [q EXCEPT !.pc = "addVote", !.call = v.call] ]
       [] q.pc = "addVote" /\ q.call.pc # "return" ->
            LET v == MemAddVoteResume(s, q.call)
            IN [store |-> v.store, req |-> [q EXCEPT !.call = v.call]]
       [] q.pc = "addVote" /\ q.call.pc = "return" ->
            IF q.call.ret.kind = "throw" THEN failed
            ELSE Await(StorageAddActivity(K, s,
                         [ groupId |-> q.subject.val.groupId,
                           userAddress |-> data.voterAddress,
                           activityType |-> "vote_cast" ], time),
                       [q EXCEPT !.made = q.call.ret], "addActivity")
       [] OTHER ->
            IF q.got.kind = "throw" THEN failed
            ELSE Respond(s, q, 201, q.made.val)

\* A request in flight resumed, whichever route it is on
Resume(K, s, q, time) ==
  IF q.route = "POST members" THEN PostGroupMemberResume(K, s, q, time)
  ELSE PostVoteResume(K, s, q, time)

InFlight(q) == q.pc \notin {"idle", "done"}

\* A request arrives and its handler runs up to its first await; requests are
\* numbered in the order they arrive
StartRequest(r, m, d) ==
  /\ reqs[r].mem.pc = "idle" /\ reqs[r].db.pc = "idle"
  /\ \A r0 \in Requests : r0 < r => reqs[r0].mem.pc # "idle"
  /\ mem' = m.store
  /\ db' = d.store
  /\ reqs' = [reqs EXCEPT ![r] = [mem |-> m.req, db |-> d.req]]
  /\ UNCHANGED <<last, now, tx, client>>

PostGroupMemberArrives(r, id, body) ==
  StartRequest(r, PostGroupMemberStart("mem", mem, id, body),
                  PostGroupMemberStart("db", db, id, body))

PostVoteArrives(r, id, body) ==
  StartRequest(r, PostVoteStart("mem", mem, id, body),
                  PostVoteStart("db", db, id, body))

\* The awaited call of request r has settled: its handler runs to its next await
ResumeRequest(r) ==
  /\ InFlight(reqs[r].mem) \/ InFlight(reqs[r].db)
  /\ LET m == IF InFlight(reqs[r].mem) THEN Resume("mem", mem, reqs[r].mem, now)
              ELSE [store |-> mem, req |-> reqs[r].mem]
         d == IF InFlight(reqs[r].db) THEN Resume("db", db, reqs[r].db, now)
              ELSE [store |-> db, req |-> reqs[r].db]
     IN /\ mem' = m.store
        /\ db' = d.store
        /\ reqs' = [reqs EXCEPT ![r] = [mem |-> m.req, db |-> d.req]]
  /\ UNCHANGED <<last, now, tx, client>>

\* Bodies of the requests that race: one joiner and one voter
RacingMembers == { [memberAddress |-> <<"0", "b">>] }

RacingVotes == { [voterAddress |-> <<"0", "A">>, vote |-> TRUE] }

\* One group and one proposal are made by requests handled alone; joining and
\* voting requests are then handled concurrently
NextRace ==
  \/ PostGroupRequest([name |-> "g", admin |-> <<"0", "a">>])
  \/ BudgetedPostProposalRequest([ groupId |-> 1, description |-> "d", deadline |-> 1,
                                   creatorAddress |-> <<"0", "a">> ])
  \/ \E r \in Requests, body \in RacingMembers : PostGroupMemberArrives(r, <<"1">>, body)
  \/ \E r \in Requests, body \in RacingVotes : PostVoteArrives(r, <<"1">>, body)
  \/ \E r \in Requests : ResumeRequest(r)

SpecRace == Init /\ [][NextRace]_vars

----------------------------------------------------------------------------
(* C15: the 'already voted' and 'already a member' preconditions are        *)
(* check-then-act: when two requests with the same (proposal, voter) or the *)
(* same (group, member address) are handled concurrently, there is an       *)
(* interleaving in which both pass the hasVoted / isGroupMember read and    *)
(* both are written, leaving two votes for one (proposal, voter) with the   *)
(* tally counted twice, or two membership rows for one (group, address).    *)

\* two requests of one route for the same (id, address)
C15_SameKey(q1, q2, route, field) ==
  /\ q1.pc # "idle" /\ q2.pc # "idle"
  /\ q1.route = route /\ q2.route = route
  /\ q1.id = q2.id
  /\ field \in DOMAIN q1.body /\ field \in DOMAIN q2.body
  /\ ToLowerCase(q1.body[field]) = ToLowerCase(q2.body[field])

\* the request got past its check: the write that follows the read was called
C15_Passed(q) ==
  \/ q.pc \in {"addGroupMember", "updateUser", "addVote", "addActivity"}
  \/ q.pc = "done" /\ q.reply.status = 201

C15_MemMemberRows(q) ==
  SelectSeq(MemMemberList(mem, ParseInt(q.id).val),
            LAMBDA m : ToLowerCase(m.memberAddress) = ToLowerCase(q.body.memberAddress))

C15_DbMemberRows(q) ==
  SelectSeq(DbMemberList(db, ParseInt(q.id).val),
            LAMBDA m : m.memberAddress = ToLowerCase(q.body.memberAddress))

C15_MemVoteRows(q) ==
  SelectSeq(MemGetVotes(mem, ParseInt(q.id).val),
            LAMBDA v : ToLowerCase(v.voterAddress) = ToLowerCase(q.body.voterAddress))

\* C15: whenever two concurrent requests for one (group, address) have both
\* passed the isGroupMember read, two membership rows of that (group, address)
\* are stored, in either store; whenever two concurrent requests for one
\* (proposal, voter) have both passed the hasVoted read behind MemStorage, two
\* votes of that (proposal, voter) are stored
C15_CheckThenAct ==
  \A r1, r2 \in Requests :
    r1 # r2 =>
      /\ ( /\ C15_SameKey(reqs[r1].mem, reqs[r2].mem, "POST members", "memberAddress")
           /\ C15_Passed(reqs[r1].mem) /\ C15_Passed(reqs[r2].mem) )
         => Len(C15_MemMemberRows(reqs[r1].mem)) >= 2
      /\ ( /\ C15_SameKey(reqs[r1].db, reqs[r2].db, "POST members", "memberAddress")
           /\ C15_Passed(reqs[r1].db) /\ C15_Passed(reqs[r2].db) )
         => Len(C15_DbMemberRows(reqs[r1].db)) >= 2
      /\ ( /\ C15_SameKey(reqs[r1].mem, reqs[r2].mem, "POST votes", "voterAddress")
           /\ C15_Passed(reqs[r1].mem) /\ C15_Passed(reqs[r2].mem) )
         => Len(C15_MemVoteRows(reqs[r1].mem)) >= 2

\* both joining requests were answered 201 and the (group, address) has two rows
\* in both stores
C15_Witness ==
  \E r1, r2 \in Requests :
    /\ r1 # r2
    /\ C15_SameKey(reqs[r1].mem, reqs[r2].mem, "POST members", "memberAddress")
    /\ \A r \in {r1, r2} :
         /\ reqs[r].mem.pc = "done" /\ reqs[r].mem.reply.status = 201
         /\ reqs[r].db.pc = "done" /\ reqs[r].db.reply.status = 201
    /\ Len(C15_MemMemberRows(reqs[r1].mem)) = 2
    /\ Len(C15_DbMemberRows(reqs[r1].db)) = 2

\* both voting requests were answered 201 behind MemStorage, the (proposal,
\* voter) has two votes and the tally counts both
C15_VotedTwice ==
  \E r1, r2 \in Requests :
    /\ r1 # r2
    /\ C15_SameKey(reqs[r1].mem, reqs[r2].mem, "POST votes", "voterAddress")
    /\ \A r \in {r1, r2} : reqs[r].mem.pc = "done" /\ reqs[r].mem.reply.status = 201
    /\ Len(C15_MemVoteRows(reqs[r1].mem)) = 2
    /\ MemGetProposal(mem, 1).val.votesYes = 2

\* behind DatabaseStorage no vote is stored, raced or not
C15_DbNeverVotes == db.votes = <<>>

----------------------------------------------------------------------------
(* C16: the API does not enforce the loan lifecycle (requested, then        *)
(* approved, then repaid or defaulted): a state in which one loan has       *)
(* repaid = true and defaulted = true is reachable through PATCH            *)
(* /api/loans/:id, and a loan can be marked repaid or defaulted while       *)
(* approved is still false.                                                 *)

\* The routes on users and loans: a borrower, its loans and their status changes
NextApiLoans ==
  \/ \E body \in UserBodies : PostUserRequest(body)
  \/ \E body \in UserPatches : PatchUserRequest(<<"0", "a">>, body)
  \/ \E body \in LoanBodies : PostLoanRequest(body)
  \/ \E id \in {<<"1">>, <<"2">>}, body \in LoanPatches : PatchLoanRequest(id, body)

SpecApiLoans == Init /\ [][NextApiLoans]_vars

\* C16: PATCH /api/loans/:id with a status flag on an existing loan is answered
\* 200 with the loan as stored, and the loan carries the flag, whatever its other
\* flags are, in both stores
C16_AnyFlagAnyTime ==
  (last.op = "PATCH loans" /\ last.arg.body # EmptyMap) =>
    LET id == ParseInt(last.arg.id).val
    IN /\ MemGetLoan(mem, id).kind = "ok" =>
            /\ last.mem.status = 200
            /\ last.mem.val = MemGetLoan(mem, id).val
            /\ \A f \in DOMAIN last.arg.body : last.mem.val[f] = last.arg.body[f]
       /\ DbGetLoan(db, id).kind = "ok" =>
            /\ last.db.status = 200
            /\ last.db.val = DbGetLoan(db, id).val
            /\ \A f \in DOMAIN last.arg.body : last.db.val[f] = last.arg.body[f]

\* a PATCH has left loan 1 repaid and defaulted and never approved, in both stores
C16_Witness ==
  /\ last.op = "PATCH loans" /\ last.mem.status = 200 /\ last.db.status = 200
  /\ MemGetLoan(mem, 1).kind = "ok" /\ DbGetLoan(db, 1).kind = "ok"
  /\ MemGetLoan(mem, 1).val.repaid /\ MemGetLoan(mem, 1).val.defaulted
  /\ ~MemGetLoan(mem, 1).val.approved
  /\ DbGetLoan(db, 1).val.repaid /\ DbGetLoan(db, 1).val.defaulted
  /\ ~DbGetLoan(db, 1).val.approved

----------------------------------------------------------------------------
(* C17: the API does not enforce the proposal lifecycle: POST               *)
(* /api/proposals/:id/votes from a voter who has not voted yet is accepted  *)
(* (201, tally incremented) also when the proposal's deadline has passed or *)
(* the proposal is already executed.                                        *)

\* A proposal with deadline 1, its execution, votes on it, and the clock
NextApiLate ==
  \/ BudgetedPostProposalRequest([ groupId |-> 1, description |-> "d", deadline |-> 1,
                                   creatorAddress |-> <<"0", "a">> ])
  \/ \E body \in ProposalPatches : PatchProposalRequest(<<"1">>, body)
  \/ \E body \in VoteBodies : BudgetedPostVoteRequest(<<"1">>, body)
  \/ Tick

SpecApiLate == Init /\ [][NextApiLate]_vars

\* the proposal is past its deadline or executed
C17_Late(proposal, time) == proposal.deadline < time \/ proposal.executed

C17_Tally(proposal) == proposal.votesYes + proposal.votesNo

\* the statement for MemStorage alone
C17_MemLateVoteAccepted ==
  [][ ( /\ last'.op = "POST votes"
        /\ ValidVote(last'.arg.id, last'.arg.body)
        /\ MemGetProposal(mem, 1).kind = "ok"
        /\ C17_Late(MemGetProposal(mem, 1).val, now)
        /\ ~MemHasVoted(mem, 1, last'.arg.body.voterAddress) )
      => /\ last'.mem.status = 201
         /\ C17_Tally(MemGetProposal(mem', 1).val) = C17_Tally(MemGetProposal(mem, 1).val) + 1
    ]_vars

\* behind DatabaseStorage the same request is answered 500 and leaves votes and
\* tally as they were
C17_DbLateVoteFails ==
  [][ ( /\ last'.op = "POST votes"
        /\ ValidVote(last'.arg.id, last'.arg.body)
        /\ DbGetProposal(db, 1).kind = "ok"
        /\ C17_Late(DbGetProposal(db, 1).val, now) )
      => /\ last'.db.status = 500
         /\ db'.votes = db.votes /\ db'.proposals = db.proposals ]_vars

\* C17: a vote on a proposal past its deadline or executed, from a voter who has
\* not voted on it, is answered 201 and raises the tally by one, in both stores
C17_LateVoteAccepted ==
  [][ /\ ( /\ last'.op = "POST votes"
           /\ ValidVote(last'.arg.id, last'.arg.body)
           /\ MemGetProposal(mem, 1).kind = "ok"
           /\ C17_Late(MemGetProposal(mem, 1).val, now)
           /\ ~MemHasVoted(mem, 1, last'.arg.body.voterAddress) )
         => /\ last'.mem.status = 201
            /\ C17_Tally(MemGetProposal(mem', 1).val)
                 = C17_Tally(MemGetProposal(mem, 1).val) + 1
      /\ ( /\ last'.op = "POST votes"
           /\ ValidVote(last'.arg.id, last'.arg.body)
           /\ DbGetProposal(db, 1).kind = "ok"
           /\ C17_Late(DbGetProposal(db, 1).val, now)
           /\ ~DbHasVoted(db, 1, last'.arg.body.voterAddress) )
         => /\ last'.db.status = 201
            /\ C17_Tally(DbGetProposal(db', 1).val)
                 = C17_Tally(DbGetProposal(db, 1).val) + 1 ]_vars

\* a vote on an executed proposal past its deadline was accepted by MemStorage
C17_MemWitness ==
  /\ last.op = "POST votes" /\ last.mem.status = 201
  /\ MemGetProposal(mem, 1).val.executed
  /\ MemGetProposal(mem, 1).val.deadline < now

----------------------------------------------------------------------------
(* C18: in the in-memory store the two writes of addVote (append the vote,  *)
(* then read-modify-write the proposal tally across awaits) are not atomic: *)
(* with two addVote calls on the same proposal interleaved at their await   *)
(* points, a state is reachable in which votesYes + votesNo of the proposal *)
(* is smaller than the number of votes stored for it (a lost increment).    *)

\* MemStorage.addVote is called and runs up to its first await
MemAddVoteCalled(r, voteData) ==
  /\ reqs[r].mem.pc = "idle"
  /\ \A r0 \in Requests : r0 < r => reqs[r0].mem.pc # "idle"
  /\ LET m == MemAddVoteStart(mem, voteData)
     IN /\ mem' = m.store
        /\ reqs' = [reqs EXCEPT ![r].mem = m.call]
  /\ UNCHANGED <<db, last, now, tx, client>>

\* the call of slot r runs from the await it is suspended at to the next
MemAddVoteResumed(r) ==
  /\ reqs[r].mem.pc \in {"getProposal", "updateProposal"}
  /\ LET m == MemAddVoteResume(mem, reqs[r].mem)
     IN /\ mem' = m.store
        /\ reqs' = [reqs EXCEPT ![r].mem = m.call]
  /\ UNCHANGED <<db, last, now, tx, client>>

\* Votes of two voters on proposal 1
VotesOnOne == { [proposalId |-> 1, voterAddress |-> a, vote |-> v] :
                  a \in {<<"0", "a">>, <<"0", "b">>}, v \in BOOLEAN }

NextAddVote ==
  \/ \E p \in InsertProposals : CreateProposal(p)
  \/ \E r \in Requests, v \in VotesOnOne : MemAddVoteCalled(r, v)
  \/ \E r \in Requests : MemAddVoteResumed(r)

SpecAddVote == Init /\ [][NextAddVote]_vars

C18_Votes(s) == Len(MemGetVotes(s, 1))

C18_Tally(s) == MemGetProposal(s, 1).val.votesYes + MemGetProposal(s, 1).val.votesNo

\* C18: the tally a call of addVote stores is the tally it read before its
\* first await raised by its own vote, whatever was stored in between; the
\* tally never exceeds the number of votes stored
C18_StaleTally ==
  [][ /\ \A r \in Requests :
           (reqs[r].mem.pc = "updateProposal" /\ reqs'[r].mem.pc = "return"
              /\ reqs[r].mem.proposal.kind = "ok")
           => /\ MemGetProposal(mem', 1).val.votesYes = reqs[r].mem.data.votesYes
              /\ MemGetProposal(mem', 1).val.votesNo = reqs[r].mem.data.votesNo
      /\ \A r \in Requests :
           (reqs[r].mem.pc = "idle" /\ reqs'[r].mem.pc = "getProposal"
              /\ reqs'[r].mem.proposal.kind = "ok")
           => reqs'[r].mem.proposal.val = MemGetProposal(mem, 1).val
      /\ \A r \in Requests :
           (reqs[r].mem.pc = "getProposal" /\ reqs'[r].mem.pc = "updateProposal")
           => reqs'[r].mem.data.votesYes + reqs'[r].mem.data.votesNo
                = reqs[r].mem.proposal.val.votesYes + reqs[r].mem.proposal.val.votesNo + 1
      /\ MemGetProposal(mem', 1).kind = "ok" => C18_Tally(mem') <= C18_Votes(mem')
    ]_vars

\* two calls of addVote on proposal 1 have returned, two votes are stored and the
\* tally counts one
C18_Witness ==
  /\ MemGetProposal(mem, 1).kind = "ok"
  /\ \E r1, r2 \in Requests :
       /\ r1 # r2
       /\ reqs[r1].mem.pc = "return" /\ reqs[r2].mem.pc = "return"
       /\ reqs[r1].mem.proposal.kind = "ok" /\ reqs[r2].mem.proposal.kind = "ok"
  /\ C18_Votes(mem) = 2
  /\ C18_Tally(mem) = 1

----------------------------------------------------------------------------
(* C19: every successful create or update operation of the storage          *)
(* interface returns the full resulting record: the value returned equals   *)
(* what the matching read returns immediately afterwards (createUser /      *)
(* updateUser vs getUser, createGroup / updateGroup vs getGroup, createLoan *)
(* / updateLoan vs getLoan, createProposal / updateProposal vs              *)
(* getProposal), with the fields given in the update replaced and all other *)
(* fields unchanged.                                                        *)

\* Update data: a field that is no key, and the key itself
KeyedUserUpdates == { [registered |-> TRUE], [address |-> <<"0", "b">>] }
KeyedGroupUpdates == { [totalDeposits |-> 1], [id |-> 2] }
KeyedLoanUpdates == { [repaid |-> TRUE], [id |-> 2] }
KeyedProposalUpdates == { [executed |-> TRUE], [id |-> 2] }

\* The create and update calls of the four kinds, creates within the budget
BudgetedCreateUser(userData) == ApiBudget /\ CreateUser(userData)
BudgetedCreateGroup(groupData) == ApiBudget /\ CreateGroup(groupData, "none")
BudgetedCreateLoan(loanData) == ApiBudget /\ CreateLoan(loanData)
BudgetedCreateProposal(proposalData) == ApiBudget /\ CreateProposal(proposalData)

NextReturns ==
  \/ \E u \in { v \in InsertUsers : v.address = <<"0", "A">> } : BudgetedCreateUser(u)
  \/ \E g \in UpdatedGroups : BudgetedCreateGroup(g)
  \/ \E l \in InsertLoans : BudgetedCreateLoan(l)
  \/ \E p \in UpdatedProposals : BudgetedCreateProposal(p)
  \/ \E data \in KeyedUserUpdates : UpdateUser(<<"0", "A">>, data)
  \/ \E data \in KeyedGroupUpdates : UpdateGroup(1, data)
  \/ \E data \in KeyedLoanUpdates : UpdateLoan(1, data)
  \/ \E data \in KeyedProposalUpdates : UpdateProposal(1, data)

SpecReturns == Init /\ [][NextReturns]_vars

C19_Creates == {"createUser", "createGroup", "createLoan", "createProposal"}
C19_Updates == {"updateUser", "updateGroup", "updateLoan", "updateProposal"}

\* the read that matches a call: getUser of the address the call was made
\* with, get of the id an update was made with or a create returned
C19_MemRead(s, op, arg, ret) ==
  CASE op = "createUser" -> MemGetUser(s, arg.address)
    [] op = "updateUser" -> MemGetUser(s, arg.address)
    [] op = "createGroup" -> MemGetGroup(s, ret.val.id)
    [] op = "updateGroup" -> MemGetGroup(s, arg.id)
    [] op = "createLoan" -> MemGetLoan(s, ret.val.id)
    [] op = "updateLoan" -> MemGetLoan(s, arg.id)
    [] op = "createProposal" -> MemGetProposal(s, ret.val.id)
    [] op = "updateProposal" -> MemGetProposal(s, arg.id)

C19_DbRead(s, op, arg, ret) ==
  CASE op = "createUser" -> DbGetUser(s, arg.address)
    [] op = "updateUser" -> DbGetUser(s, arg.address)
    [] op = "createGroup" -> DbGetGroup(s, ret.val.id)
    [] op = "updateGroup" -> DbGetGroup(s, arg.id)
    [] op = "createLoan" -> DbGetLoan(s, ret.val.id)
    [] op = "updateLoan" -> DbGetLoan(s, arg.id)
    [] op = "createProposal" -> DbGetProposal(s, ret.val.id)
    [] op = "updateProposal" -> DbGetProposal(s, arg.id)

\* the update data names the key the record is read by
C19_ChangesKey(op, arg) ==
  op \in C19_Updates /\ ({"id", "address"} \cap DOMAIN arg.data) # {}

\* the statement for MemStorage alone
C19_MemReturnsStored ==
  [][ (last'.op \in C19_Creates \cup C19_Updates /\ last'.mem.kind = "ok") =>
        /\ C19_MemRead(mem', last'.op, last'.arg, last'.mem) = last'.mem
        /\ last'.op \in C19_Updates =>
             last'.mem.val
               = Spread(C19_MemRead(mem, last'.op, last'.arg, last'.mem).val,
                        last'.arg.data) ]_vars

\* the statement for DatabaseStorage alone, for updates that leave the key alone
C19_DbReturnsStoredWhenKeyKept ==
  [][ ( /\ last'.op \in C19_Creates \cup C19_Updates
        /\ last'.db.kind = "ok"
        /\ ~C19_ChangesKey(last'.op, last'.arg) ) =>
        /\ C19_DbRead(db', last'.op, last'.arg, last'.db) = last'.db
        /\ last'.op \in C19_Updates =>
             last'.db.val
               = Spread(C19_DbRead(db, last'.op, last'.arg, last'.db).val,
                        last'.arg.data) ]_vars

\* C19: a create or update that returned a record returned what the matching
\* read returns right afterwards, and an update returned the record as it was
\* with the fields of the update data replaced, in both stores
C19_ReturnsStored ==
  [][ /\ (last'.op \in C19_Creates \cup C19_Updates /\ last'.mem.kind = "ok") =>
           /\ C19_MemRead(mem', last'.op, last'.arg, last'.mem) = last'.mem
           /\ last'.op \in C19_Updates =>
                last'.mem.val
                  = Spread(C19_MemRead(mem, last'.op, last'.arg, last'.mem).val,
                           last'.arg.data)
      /\ (last'.op \in C19_Creates \cup C19_Updates /\ last'.db.kind = "ok") =>
           /\ C19_DbRead(db', last'.op, last'.arg, last'.db) = last'.db
           /\ last'.op \in C19_Updates =>
                last'.db.val
                  = Spread(C19_DbRead(db, last'.op, last'.arg, last'.db).val,
                           last'.arg.data) ]_vars

----------------------------------------------------------------------------
(* C20: each successful POST /api/groups, POST /api/groups/:id/members,     *)
(* POST /api/proposals and POST /api/proposals/:id/votes appends exactly    *)
(* one activity record to the log of the affected group (types              *)
(* create_group, join_group, proposal_created, vote_cast respectively), and *)
(* the activity is stored before the 201 response is sent.                  *)

C20_Routes == {"POST groups", "POST members", "POST proposals", "POST votes"}

C20_Type(op) ==
  CASE op = "POST groups" -> "create_group"
    [] op = "POST members" -> "join_group"
    [] op = "POST proposals" -> "proposal_created"
    [] op = "POST votes" -> "vote_cast"

\* the group a request is about: the one made, the one joined, the one the
\* proposal made or voted on belongs to
C20_Group(op, arg, ret, proposal) ==
  CASE op = "POST groups" -> ret.val.id
    [] op = "POST members" -> ParseInt(arg.id).val
    [] op = "POST proposals" -> arg.groupId
    [] op = "POST votes" -> proposal.val.groupId

\* the log new is the log old with one activity of type and group added
C20_OneMore(old, new, type, group) ==
  /\ Len(new) = Len(old) + 1
  /\ SubSeq(new, 1, Len(old)) = old
  /\ new[Len(new)].activityType = type
  /\ new[Len(new)].groupId = group

\* C20: a request of the four routes answered 201 has added one activity of the
\* route's type to the log of its group and none to any other log, in both
\* stores, by the time it is answered
C20_OneActivityPer201 ==
  [][ /\ (last'.op \in C20_Routes /\ last'.mem.status = 201) =>
           LET g == C20_Group(last'.op, last'.arg, last'.mem,
                              MemGetProposal(mem, ParseInt(last'.arg.id).val))
           IN /\ C20_OneMore(GetOrEmpty(mem.activities, g),
                             GetOrEmpty(mem'.activities, g), C20_Type(last'.op), g)
              /\ \A h \in (DOMAIN mem'.activities) \ {g} :
                   mem'.activities[h] = GetOrEmpty(mem.activities, h)
      /\ (last'.op \in C20_Routes /\ last'.db.status = 201) =>
           LET g == C20_Group(last'.op, last'.arg, last'.db,
                              DbGetProposal(db, ParseInt(last'.arg.id).val))
           IN C20_OneMore(db.activities, db'.activities, C20_Type(last'.op), g) ]_vars

\* a joining request was answered 201 behind both stores, after the group's
\* creation: the group's log ends with create_group, join_group
C20_Witness ==
  /\ last.op = "POST members" /\ last.mem.status = 201 /\ last.db.status = 201
  /\ LET g == ParseInt(last.arg.id).val
         log == GetOrEmpty(mem.activities, g)
     IN /\ Len(log) = 2
        /\ log[1].activityType = "create_group" /\ log[2].activityType = "join_group"
        /\ Len(db.activities) = 2
        /\ db.activities[2].activityType = "join_group" /\ db.activities[2].groupId = g

\* with requests interleaved at their awaits: a request answered 201 has its
\* activity in the log
C20_StoredBeforeReply ==
  \A r \in Requests :
    /\ (reqs[r].mem.pc = "done" /\ reqs[r].mem.reply.status = 201) =>
         \E i \in DOMAIN GetOrEmpty(mem.activities, 1) :
           /\ mem.activities[1][i].activityType = C20_Type(reqs[r].mem.route)
           /\ mem.activities[1][i].userAddress
                = IF reqs[r].mem.route = "POST members"
                  THEN reqs[r].mem.body.memberAddress
                  ELSE reqs[r].mem.body.voterAddress
    /\ (reqs[r].db.pc = "done" /\ reqs[r].db.reply.status = 201) =>
         \E i \in DOMAIN db.activities :
           /\ db.activities[i].activityType = C20_Type(reqs[r].db.route)
           /\ db.activities[i].groupId = 1

----------------------------------------------------------------------------
(* Users, groups and memberships through the REST API, one request at a time *)

\* Requests are taken while the stores hold fewer than MaxJoinRecords records
JoinBudget == MemAllocated(mem) < MaxJoinRecords /\ DbAllocated(db) < MaxJoinRecords

JoinUserRequest(body) ==
  /\ JoinBudget
  /\ Served("POST users", body, PostUser("mem", mem, body), PostUser("db", db, body))

JoinGroupRequest(body) ==
  /\ JoinBudget
  /\ Served("POST groups", body,
            PostGroup("mem", mem, body, now), PostGroup("db", db, body, now))

JoinGroupMemberRequest(id, body) ==
  /\ JoinBudget
  /\ Served("POST members", [id |-> id, body |-> body],
            PostGroupMember("mem", mem, id, body, now),
            PostGroupMember("db", db, id, body, now))

NextJoin ==
  \/ \E body \in InsertUsers : JoinUserRequest(body)
  \/ \E a \in Addresses : JoinGroupRequest([name |-> "g", admin |-> a])
  \/ \E id \in {<<"1">>, <<"2">>}, a \in Addresses :
       JoinGroupMemberRequest(id, [memberAddress |-> a])

SpecJoin == Init /\ [][NextJoin]_vars

\* The address is on a membership row of the group, letter case aside
C21_IsMember(rows, groupId, address) ==
  \E i \in DOMAIN rows :
    /\ rows[i].groupId = groupId
    /\ ToLowerCase(rows[i].memberAddress) = ToLowerCase(address)

\* C21: with requests handled one at a time, POST /api/groups/:id/members for
\* an address that is already a member of the group, in any letter case and
\* the admin included, is answered 400 and changes nothing in the store: no
\* membership row, no change of the user record, no activity.
C21_DuplicateJoinRefused ==
  [][ \A id \in {<<"1">>, <<"2">>}, a \in Addresses :
        /\ last'.op = "POST members"
        /\ last'.arg = [id |-> id, body |-> [memberAddress |-> a]]
        => /\ ( /\ MemGetGroup(mem, ParseInt(id).val).kind = "ok"
                /\ C21_IsMember(MemMemberList(mem, ParseInt(id).val),
                                ParseInt(id).val, a) )
              => (last'.mem.status = 400 /\ mem' = mem)
           /\ ( /\ DbGetGroup(db, ParseInt(id).val).kind = "ok"
                /\ C21_IsMember(db.groupMembers, ParseInt(id).val, a) )
              => (last'.db.status = 400 /\ db' = db) ]_vars

\* The admin of group 1, who has a user record, asks to join under another
\* letter case and is refused by both stores
C21_Witness ==
  /\ last.op = "POST members"
  /\ last.mem.status = 400
  /\ last.db.status = 400
  /\ last.arg.id = <<"1">>
  /\ MemGetGroup(mem, 1).kind = "ok"
  /\ MemGetGroup(mem, 1).val.admin # last.arg.body.memberAddress
  /\ ToLowerCase(MemGetGroup(mem, 1).val.admin) = ToLowerCase(last.arg.body.memberAddress)
  /\ MemGetUser(mem, last.arg.body.memberAddress).kind = "ok"
  /\ DbGetUser(db, last.arg.body.memberAddress).kind = "ok"

----------------------------------------------------------------------------
(* The REST API while writes to the activity log may be refused *)

DbKinds == {"db", "dbLogDown"}

OutagePostUser(body) ==
  Handled("POST users", body, PostUser("mem", mem, body), PostUser("db", db, body))

OutagePostGroup(K, body) ==
  Handled("POST groups", body,
          PostGroup("mem", mem, body, now), PostGroup(K, db, body, now))

OutagePostGroupMember(K, id, body) ==
  Handled("POST members", [id |-> id, body |-> body],
          PostGroupMember("mem", mem, id, body, now),
          PostGroupMember(K, db, id, body, now))

OutagePostLoan(K, body) ==
  Handled("POST loans", body,
          PostLoan("mem", mem, body, now), PostLoan(K, db, body, now))

OutagePostProposal(K, body) ==
  Handled("POST proposals", body,
          PostProposal("mem", mem, body, now), PostProposal(K, db, body, now))

OutagePostVote(K, id, body) ==
  Handled("POST votes", [id |-> id, body |-> body],
          PostVote("mem", mem, id, body, now), PostVote(K, db, id, body, now))

\* A user who names group 1 in the request body
GroupedUserBodies == { [address |-> <<"0", "A">>, groupId |-> 1, registered |-> FALSE] }

NextOutage ==
  \/ \E body \in GroupedUserBodies : OutagePostUser(body)
  \/ \E K \in DbKinds, body \in GroupBodies : OutagePostGroup(K, body)
  \/ \E K \in DbKinds, body \in MemberBodies : OutagePostGroupMember(K, <<"1">>, body)
  \/ \E K \in DbKinds, body \in LoanBodies : OutagePostLoan(K, body)
  \/ \E K \in DbKinds, body \in ProposalBodies : OutagePostProposal(K, body)
  \/ \E K \in DbKinds, body \in VoteBodiesOfOne : OutagePostVote(K, <<"1">>, body)

SpecOutage == Init /\ [][NextOutage]_vars

\* The first write of the handler, as DatabaseStorage performs it alone
C22_FirstWrite(op, arg) ==
  CASE op = "POST groups" -> DbCreateGroup(db, arg, "none")
    [] op = "POST members" ->
         DbAddGroupMember(db, [ groupId |-> ParseInt(arg.id).val,
                                memberAddress |-> arg.body.memberAddress ])
    [] op = "POST loans" ->
         DbCreateLoan(db, [ borrowerAddress |-> arg.borrowerAddress, amount |-> arg.amount,
                            repaid |-> arg.repaid, approved |-> arg.approved,
                            defaulted |-> arg.defaulted ])
    [] op = "POST proposals" ->
         DbCreateProposal(db, [ groupId |-> arg.groupId, description |-> arg.description,
                                deadline |-> arg.deadline ])
    [] op = "POST votes" ->
         DbAddVote(db, [ proposalId |-> ParseInt(arg.id).val,
                         voterAddress |-> arg.body.voterAddress, vote |-> arg.body.vote ])

\* The request reaches its first write: it is valid and passes the lookups
C22_Writes(op, arg) ==
  CASE op = "POST groups" -> ValidGroup(arg)
    [] op = "POST members" ->
         /\ ValidGroupMember(arg.id, arg.body)
         /\ DbGetGroup(db, ParseInt(arg.id).val).kind = "ok"
         /\ ~DbIsGroupMember(db, ParseInt(arg.id).val, arg.body.memberAddress)
    [] op = "POST loans" -> ValidLoan(arg)
    [] op = "POST proposals" -> ValidProposal(arg)
    [] op = "POST votes" ->
         /\ ValidVote(arg.id, arg.body)
         /\ DbGetProposal(db, ParseInt(arg.id).val).kind = "ok"
         /\ ~DbHasVoted(db, ParseInt(arg.id).val, arg.body.voterAddress)
    [] OTHER -> FALSE

\* The rows of the table the route writes first
C22_Table(op) ==
  CASE op = "POST groups" -> "groups"
    [] op = "POST members" -> "groupMembers"
    [] op = "POST loans" -> "loans"
    [] op = "POST proposals" -> "proposals"
    [] op = "POST votes" -> "votes"

\* C22: nothing is rolled back across the storage calls of one request: when
\* a mutation endpoint is answered 500 although its first write succeeded, the
\* row of that write is stored afterwards (and the log has no new activity).
C22_NoRollback ==
  [][ /\ last'.db.status = 500
      /\ C22_Writes(last'.op, last'.arg)
      /\ C22_FirstWrite(last'.op, last'.arg).ret.kind = "ok"
      => /\ db'[C22_Table(last'.op)]
              = Append(db[C22_Table(last'.op)], C22_FirstWrite(last'.op, last'.arg).ret.val)
         /\ db'.activities = db.activities ]_vars

\* POST /api/groups was answered 500 and the group is stored, with its admin's
\* membership row and without an activity
C22_Witness ==
  /\ last.op = "POST groups"
  /\ last.db.status = 500
  /\ DbGetGroup(db, 1).kind = "ok"
  /\ DbIsGroupMember(db, 1, DbGetGroup(db, 1).val.admin)
  /\ db.activities = <<>>

\* POST /api/proposals without creatorAddress was answered 500 and the proposal
\* is stored
C22_ProposalKept ==
  /\ last.op = "POST proposals"
  /\ last.db.status = 500
  /\ "creatorAddress" \notin DOMAIN last.arg
  /\ DbGetProposal(db, 1).kind = "ok"

\* POST /api/loans was answered 500 and the loan and its guarantor are stored
C22_LoanKept ==
  /\ last.op = "POST loans"
  /\ last.db.status = 500
  /\ DbGetLoan(db, 1).kind = "ok"
  /\ DbGetLoanGuarantors(db, 1) # <<>>

----------------------------------------------------------------------------
(* Identifiers of the in-memory store *)

\* The counter of MemStorage.currentIds a create operation takes its id from
C23_Counter(op) ==
  CASE op = "createUser" -> "user"
    [] op = "createGroup" -> "group"
    [] op = "createLoan" -> "loan"
    [] op = "createProposal" -> "proposal"

\* The records of a Map have pairwise different ids
C23_Distinct(map) ==
  \A k1, k2 \in DOMAIN map : map[k1].id = map[k2].id => k1 = k2

\* C23: in the in-memory store no two records of the same kind ever share an
\* id, after any sequence of operations.
C23_UniqueIds ==
  /\ C23_Distinct(mem.users)
  /\ C23_Distinct(mem.groups)
  /\ C23_Distinct(mem.loans)
  /\ C23_Distinct(mem.proposals)

\* The part of C23 on the create operations: the counters start at 1, and a
\* create returns the counter's value and leaves the counter one larger
C23_CreatesCount ==
  [][ last'.op \in {"createUser", "createGroup", "createLoan", "createProposal"}
      => /\ last'.mem.kind = "ok"
         /\ last'.mem.val.id = mem.currentIds[C23_Counter(last'.op)]
         /\ mem'.currentIds[C23_Counter(last'.op)] = last'.mem.val.id + 1
         /\ \A c \in DOMAIN mem.currentIds \ {C23_Counter(last'.op)} :
              last'.op # "createGroup" => mem'.currentIds[c] = mem.currentIds[c] ]_vars

C23_StartsAtOne ==
  last.op = "init" => \A c \in DOMAIN mem.currentIds : mem.currentIds[c] = 1

\* Two loans were created and both records say id 2
C23_SharedId ==
  /\ DOMAIN mem.loans = {1, 2}
  /\ mem.loans[1].id = 2
  /\ mem.loans[2].id = 2

----------------------------------------------------------------------------
(* Tallies and stored votes *)

\* The number of votes of a list that say `vote`
C24_Count(votes, vote) == Cardinality({ i \in DOMAIN votes : votes[i].vote = vote })

C24_MemTalliesMatch ==
  \A id \in DOMAIN mem.proposals :
    /\ mem.proposals[id].votesYes = C24_Count(MemGetVotes(mem, id), TRUE)
    /\ mem.proposals[id].votesNo = C24_Count(MemGetVotes(mem, id), FALSE)

C24_DbTalliesMatch ==
  \A i \in DOMAIN db.proposals :
    /\ db.proposals[i].votesYes = C24_Count(DbGetVotes(db, db.proposals[i].id), TRUE)
    /\ db.proposals[i].votesNo = C24_Count(DbGetVotes(db, db.proposals[i].id), FALSE)

\* C24: after any sequence of createProposal and addVote calls made one at a
\* time, votesYes of every proposal is the number of stored votes on it with
\* vote = true and votesNo the number with vote = false, in both stores.
C24_TalliesMatch == C24_MemTalliesMatch /\ C24_DbTalliesMatch

\* A proposal with one vote for and one against, both counted
C24_Witness ==
  /\ last.op = "addVote"
  /\ MemGetProposal(mem, 1).kind = "ok"
  /\ MemGetProposal(mem, 1).val.votesYes = 1
  /\ MemGetProposal(mem, 1).val.votesNo = 1
  /\ Len(MemGetVotes(mem, 1)) = 2

\* Proposal 1 was created after a vote had been stored under its id
C24_CreatedAfterVote ==
  /\ last.op = "createProposal"
  /\ last.mem.val.id = 1
  /\ mem.currentIds.vote > 1

----------------------------------------------------------------------------
(* POST /api/users repeated *)

\* PATCH bodies: a field that is no key, and the address itself
AddressPatches == { [registered |-> TRUE], [address |-> <<"0", "B">>] }

NextUserApi ==
  \/ \E body \in InsertUsers : PostUserRequest(body)
  \/ \E a \in {<<"0", "a">>, <<"0", "b">>}, body \in AddressPatches :
       PatchUserRequest(a, body)

SpecUserApi == Init /\ [][NextUserApi]_vars

\* The user records whose address is the given one, letter case aside
C25_MemUsers(s, address) ==
  { k \in DOMAIN s.users : ToLowerCase(s.users[k].address) = ToLowerCase(address) }

C25_DbUsers(s, address) ==
  { i \in DOMAIN s.users : ToLowerCase(s.users[i].address) = ToLowerCase(address) }

\* C25: POST /api/users for an address that has a user record, in any letter
\* case, is answered 200 with that record and changes nothing; it is answered
\* 201 only when no such record was there, and then exactly one is created.
C25_Idempotent ==
  [][ (last'.op = "POST users" /\ ValidUser(last'.arg)) =>
        /\ IF C25_MemUsers(mem, last'.arg.address) # {}
           THEN /\ last'.mem.status = 200
                /\ mem' = mem
                /\ \E k \in C25_MemUsers(mem, last'.arg.address) :
                     last'.mem.val = mem.users[k]
           ELSE /\ last'.mem.status = 201
                /\ Cardinality(C25_MemUsers(mem', last'.arg.address)) = 1
        /\ IF C25_DbUsers(db, last'.arg.address) # {}
           THEN /\ last'.db.status = 200
                /\ db' = db
                /\ \E i \in C25_DbUsers(db, last'.arg.address) :
                     last'.db.val = db.users[i]
           ELSE /\ last'.db.status = 201
                /\ Cardinality(C25_DbUsers(db', last'.arg.address)) = 1 ]_vars

\* The request repeated under the other letter case was answered 200 with the
\* record of the first request
C25_Repeated ==
  /\ last.op = "POST users"
  /\ last.mem.status = 200 /\ last.db.status = 200
  /\ last.arg.address # last.db.val.address
  /\ last.mem.val.id = 1 /\ last.db.val.id = 1

\* Two user rows of one address, letter case aside
C25_TwoRecords ==
  \E a \in Addresses : Cardinality(C25_DbUsers(db, a)) = 2

----------------------------------------------------------------------------
(* Guarantor operations of the two stores side by side *)

UpdateGuarantor(loanId, address, approved) ==
  /\ LET m == MemUpdateGuarantor(mem, loanId, address, [approved |-> approved])
         d == DbUpdateGuarantor(db, loanId, address, [approved |-> approved])
     IN /\ mem' = m.store
        /\ db' = d.store
        /\ last' = Call("updateGuarantor",
                        [loanId |-> loanId, address |-> address, approved |-> approved],
                        m.ret, d.ret)
  /\ UNCHANGED <<now, tx, reqs, client>>

NextGuarantors ==
  \/ \E loanData \in InsertLoans : CreateLoan(loanData)
  \/ \E guarantorData \in InsertGuarantors : AddGuarantor(guarantorData)
  \/ \E loanId \in 1..2, a \in Guarantors, approved \in BOOLEAN :
       UpdateGuarantor(loanId, a, approved)
  \/ \E loanId \in 1..2 : GetLoanGuarantors(loanId)

SpecGuarantors == Init /\ [][NextGuarantors]_vars

\* The approved flags of a list of guarantors, in the list's order
C26_Flags(guarantors) == [i \in DOMAIN guarantors |-> guarantors[i].approved]

\* C26: after the same sequence of createLoan, addGuarantor and updateGuarantor
\* calls, getLoanGuarantors returns the same approved flags in both stores and
\* updateGuarantor returns undefined in exactly the same cases.
C26_GuarantorsEquivalent ==
  /\ last.op = "getLoanGuarantors"
       => C26_Flags(last.mem.val) = C26_Flags(last.db.val)
  /\ last.op = "updateGuarantor"
       => (last.mem.kind = "undefined" <=> last.db.kind = "undefined")

\* One address was added twice to loan 1 and then approved: the in-memory
\* store approved the first entry, the relational store both rows
C26_FirstOnly ==
  /\ last.op = "getLoanGuarantors"
  /\ last.arg = 1
  /\ C26_Flags(last.mem.val) = <<TRUE, FALSE>>
  /\ C26_Flags(last.db.val) = <<TRUE, TRUE>>

\* A guarantor added before loan 1 was created: the in-memory store dropped it
\* at createLoan and returns undefined, the relational store updates the row
C26_UndefinedInOne ==
  /\ last.op = "updateGuarantor"
  /\ last.mem.kind = "undefined"
  /\ last.db.kind = "ok"

\* The part of C26 that holds: while createLoan dropped no guarantor added
\* under its id beforehand and no (loan, address) was added twice, the stores
\* agree
C26_Regular ==
  /\ \A loanId \in 1..2 :
       Len(MemGetLoanGuarantors(mem, loanId)) = Len(DbGetLoanGuarantors(db, loanId))
  /\ \A i, j \in DOMAIN db.guarantors :
       ( /\ db.guarantors[i].loanId = db.guarantors[j].loanId
         /\ db.guarantors[i].guarantorAddress = db.guarantors[j].guarantorAddress )
       => i = j

C26_EquivalentWhenRegular ==
  C26_Regular =>
    /\ last.op = "updateGuarantor"
         => (last.mem.kind = "undefined" <=> last.db.kind = "undefined")
    /\ \A loanId \in 1..2 :
         C26_Flags(MemGetLoanGuarantors(mem, loanId))
           = C26_Flags(DbGetLoanGuarantors(db, loanId))

----------------------------------------------------------------------------
(* User records and the membership table *)

\* The groups an address is a member of, letter case aside
C27_MemGroupsOf(s, address) ==
  { g \in DOMAIN s.groupMembers :
      C21_IsMember(s.groupMembers[g], g, address) }

C27_DbGroupsOf(s, address) ==
  { s.groupMembers[i].groupId : i \in { j \in DOMAIN s.groupMembers :
      ToLowerCase(s.groupMembers[j].memberAddress) = ToLowerCase(address) } }

\* C27: after any sequence of POST /api/users, POST /api/groups and POST
\* /api/groups/:id/members requests, every user whose address is a member of
\* some group (the admin included) has a groupId that is the id of a group the
\* address is a member of.
C27_GroupIdOfMembership ==
  /\ \A k \in DOMAIN mem.users :
       C27_MemGroupsOf(mem, mem.users[k].address) # {}
         => mem.users[k].groupId \in C27_MemGroupsOf(mem, mem.users[k].address)
  /\ \A i \in DOMAIN db.users :
       C27_DbGroupsOf(db, db.users[i].address) # {}
         => db.users[i].groupId \in C27_DbGroupsOf(db, db.users[i].address)

\* The admin of group 1 has a user record whose groupId is null, in both stores
C27_AdminWithoutGroup ==
  /\ last.op = "POST groups"
  /\ last.mem.status = 201 /\ last.db.status = 201
  /\ MemGetUser(mem, last.arg.admin).kind = "ok"
  /\ MemGetUser(mem, last.arg.admin).val.groupId = Null
  /\ DbGetUser(db, last.arg.admin).kind = "ok"
  /\ DbGetUser(db, last.arg.admin).val.groupId = Null
  /\ DbIsGroupMember(db, 1, last.arg.admin)
  /\ MemIsGroupMember(mem, 1, last.arg.admin)

\* The part of C27 on joining: a user record that exists when its address
\* joins a group gets that group's id
C27_JoinSetsGroupId ==
  [][ ( /\ last'.op = "POST members"
        /\ last'.mem.status = 201 /\ last'.db.status = 201
        /\ MemGetUser(mem, last'.arg.body.memberAddress).kind = "ok"
        /\ DbGetUser(db, last'.arg.body.memberAddress).kind = "ok" )
      => /\ MemGetUser(mem', last'.arg.body.memberAddress).val.groupId
              = ParseInt(last'.arg.id).val
         /\ DbGetUser(db', last'.arg.body.memberAddress).val.groupId
              = ParseInt(last'.arg.id).val ]_vars

----------------------------------------------------------------------------
(* Votes on a proposal id that does not exist, in the in-memory store *)

\* C28: in the in-memory store addVote for a proposal id that does not exist
\* stores the vote and returns it without error, no proposal tally changes
\* and hasVoted for that (proposal id, voter) is true afterwards; a proposal
\* created later starts with both tallies at 0, whatever was voted under its
\* id before.
C28_VoteOnMissingProposal ==
  [][ /\ ( last'.op = "addVote" /\ ~MapHas(mem.proposals, last'.arg.proposalId) )
          => /\ last'.mem.kind = "ok"
             /\ last'.mem.val.proposalId = last'.arg.proposalId
             /\ last'.mem.val.voterAddress = last'.arg.voterAddress
             /\ last'.mem.val.vote = last'.arg.vote
             /\ \E i \in DOMAIN MemGetVotes(mem', last'.arg.proposalId) :
                  MemGetVotes(mem', last'.arg.proposalId)[i] = last'.mem.val
             /\ mem'.proposals = mem.proposals
             /\ MemHasVoted(mem', last'.arg.proposalId, last'.arg.voterAddress)
      /\ last'.op = "createProposal"
          => /\ ~MapHas(mem.proposals, last'.mem.val.id)
             /\ mem'.proposals[last'.mem.val.id].votesYes = 0
             /\ mem'.proposals[last'.mem.val.id].votesNo = 0
             /\ \A id \in DOMAIN mem.proposals : mem'.proposals[id] = mem.proposals[id]
    ]_vars

\* Proposal 1 was created after a vote had been stored under id 1, and its
\* tallies are 0
C28_Witness ==
  /\ last.op = "createProposal"
  /\ last.mem.val.id = 1
  /\ mem.currentIds.vote > 1
  /\ mem.proposals[1].votesYes = 0
  /\ mem.proposals[1].votesNo = 0

\* A vote on proposal 2, which does not exist, was stored and returned
C28_Stored ==
  /\ last.op = "addVote"
  /\ last.arg.proposalId = 2
  /\ ~MapHas(mem.proposals, 2)
  /\ last.mem.kind = "ok"
  /\ MemHasVoted(mem, 2, last.arg.voterAddress)

----------------------------------------------------------------------------
(* The activity of PATCH /api/loans/:id *)

\* Request bodies with no flag, one flag and two flags
FlagPatches ==
  LoanPatches \cup { [approved |-> TRUE, repaid |-> TRUE],
                     [repaid |-> TRUE, defaulted |-> TRUE],
                     [approved |-> FALSE, defaulted |-> TRUE] }

NextPatchLoan ==
  \/ \E body \in UserBodies \cup GroupedUserBodies : PostUserRequest(body)
  \/ \E body \in LoanBodies : PostLoanRequest(body)
  \/ \E id \in {<<"1">>, <<"2">>}, body \in FlagPatches : PatchLoanRequest(id, body)

SpecPatchLoan == Init /\ [][NextPatchLoan]_vars

\* The activity type the claim gives a request body
C29_Type(body) ==
  IF "approved" \in DOMAIN body /\ body.approved = TRUE THEN "loan_approved"
  ELSE IF "repaid" \in DOMAIN body /\ body.repaid = TRUE THEN "loan_repaid"
  ELSE IF "defaulted" \in DOMAIN body /\ body.defaulted = TRUE THEN "loan_defaulted"
  ELSE "loan_update"

\* The in-memory logs hold one activity more, of the type, at the end of the
\* group's log
C29_MemOneMore(groupId, type) ==
  /\ MapHas(mem'.activities, groupId)
  /\ Len(mem'.activities[groupId]) = Len(GetOrEmpty(mem.activities, groupId)) + 1
  /\ \A i \in DOMAIN GetOrEmpty(mem.activities, groupId) :
       mem'.activities[groupId][i] = mem.activities[groupId][i]
  /\ mem'.activities[groupId][Len(mem'.activities[groupId])].activityType = type
  /\ \A g \in DOMAIN mem'.activities \ {groupId} :
       MapHas(mem.activities, g) /\ mem'.activities[g] = mem.activities[g]

C29_DbOneMore(groupId, type) ==
  /\ Len(db'.activities) = Len(db.activities) + 1
  /\ SubSeq(db'.activities, 1, Len(db.activities)) = db.activities
  /\ db'.activities[Len(db'.activities)].activityType = type
  /\ db'.activities[Len(db'.activities)].groupId = groupId

\* The statement for the PATCH requests whose body is in `bodies`
C29_Logged(bodies) ==
  (last'.op = "PATCH loans" /\ last'.arg.body \in bodies) =>
    LET id == ParseInt(last'.arg.id).val
        memLoan == MemGetLoan(mem, id)
        dbLoan == DbGetLoan(db, id)
    IN /\ memLoan.kind = "ok" =>
            LET user == MemGetUser(mem, memLoan.val.borrowerAddress)
            IN IF user.kind = "ok" /\ user.val.groupId # Null
               THEN C29_MemOneMore(user.val.groupId, C29_Type(last'.arg.body))
               ELSE mem'.activities = mem.activities
       /\ dbLoan.kind = "ok" =>
            LET user == DbGetUser(db, dbLoan.val.borrowerAddress)
            IN IF user.kind = "ok" /\ user.val.groupId # Null
               THEN C29_DbOneMore(user.val.groupId, C29_Type(last'.arg.body))
               ELSE db'.activities = db.activities

\* C29: PATCH /api/loans/:id on an existing loan appends exactly one activity
\* when the borrower has a user record with a non-null groupId and none
\* otherwise; its type follows the body with precedence approved, repaid,
\* defaulted, then loan_update.
C29_OneActivity == [][C29_Logged(FlagPatches)]_vars

\* The same for the bodies that carry a field
C29_OneActivityWhenSet == [][C29_Logged(FlagPatches \ {EmptyMap})]_vars

\* A body with approved and repaid both true was logged as loan_approved, in
\* both stores
C29_BothFlags ==
  /\ last.op = "PATCH loans"
  /\ last.arg.body = [approved |-> TRUE, repaid |-> TRUE]
  /\ last.mem.status = 200 /\ last.db.status = 200
  /\ MapHas(mem.activities, 1)
  /\ mem.activities[1][Len(mem.activities[1])].activityType = "loan_approved"
  /\ db.activities # <<>>
  /\ db.activities[Len(db.activities)].activityType = "loan_approved"

\* The empty body on a loan whose borrower is in group 1: DatabaseStorage
\* answered 500 and logged nothing, MemStorage logged loan_update
C29_EmptyBody ==
  /\ last.op = "PATCH loans"
  /\ last.arg.body = EmptyMap
  /\ last.mem.status = 200 /\ last.db.status = 500
  /\ MapHas(mem.activities, 1)
  /\ mem.activities[1][Len(mem.activities[1])].activityType = "loan_update"
  /\ \A i \in DOMAIN db.activities : db.activities[i].activityType # "loan_update"

----------------------------------------------------------------------------
(* The client's SaccoContext: voteOnProposal, requestLoan, repayLoan and     *)
(* executeProposal, one await at a time. The contract and the backend       *)
(* answer each await in any way they can; client.sent lists the backend     *)
(* writes (POST, PATCH) in the order they were sent.                        *)

ClientOps == {"voteOnProposal", "requestLoan", "repayLoan", "executeProposal"}

\* The operations with the backend write moved before the contract call
ClientProgramOptimistic(op) ==
  CASE op = "voteOnProposal" ->
         <<"getVotes", "getProposal", "postVote", "contractCall", "wait", "postActivity">>
    [] op = "requestLoan" ->
         <<"postLoan", "contractCall", "wait", "getUserInfo", "postActivity">>
    [] op = "repayLoan" ->
         << "getLoan", "getUserLoans", "patchLoan", "contractCall", "wait",
            "getUserInfo", "postActivity" >>
    [] op = "executeProposal" ->
         <<"getProposal", "patchProposal", "contractCall", "wait", "postActivity">>

\* The awaits of each operation, in program order
ClientProgram(op) ==
  CASE op = "voteOnProposal" ->
         <<"getVotes", "getProposal", "contractCall", "wait", "postVote", "postActivity">>
    [] op = "requestLoan" ->
         <<"contractCall", "wait", "postLoan", "getUserInfo", "postActivity">>
    [] op = "repayLoan" ->
         << "getLoan", "getUserLoans", "contractCall", "wait", "patchLoan",
            "getUserInfo", "postActivity" >>
    [] op = "executeProposal" ->
         <<"getProposal", "contractCall", "wait", "patchProposal", "postActivity">>

\* apiRequest("GET", ...) and apiRequest("POST" | "PATCH", ...)
ClientReads == {"getVotes", "getProposal", "getLoan", "getUserLoans"}
ClientWrites == {"postVote", "postLoan", "patchLoan", "patchProposal", "postActivity"}

\* The await after `pc`, or the finally block after the last one
ClientNextStep(op, pc) ==
  LET program == ClientProgram(op)
      at == CHOOSE i \in DOMAIN program : program[i] = pc
  IN IF at = Len(program) THEN "finally" ELSE program[at + 1]

ClientAdvance(c) == [c EXCEPT !.pc = ClientNextStep(c.op, c.pc)]

\* An error thrown at an await: requestLoan catches the errors of its backend
\* sync in an inner try and resolves; every other error is rethrown by the
\* operation's catch. The finally block runs in both cases.
ClientThrow(c, step) ==
  [c EXCEPT !.pc = "finally", !.failed = step,
            !.outcome = IF c.op = "requestLoan" /\ step \notin {"contractCall", "wait"}
                        THEN "resolved" ELSE "rejected"]

\* The guard before the try block and setIsLoading(true)
ClientStart(op, contract, address) ==
  /\ client.pc = "idle"
  /\ client' =
       IF contract /\ (address \/ op = "requestLoan")
       THEN [ClientIdle EXCEPT !.op = op, !.pc = ClientProgram(op)[1],
                               !.isLoading = TRUE, !.address = address]
       ELSE [ClientIdle EXCEPT !.op = op, !.isLoading = client.isLoading,
                               !.address = address, !.failed = "guard",
                               !.outcome = "rejected"]
  /\ UNCHANGED <<mem, db, last, now, tx, reqs>>

\* A GET: it resolves with what the operation needs ("ok"), rejects, or
\* resolves with what the operation refuses (the user has voted, the loan has
\* another borrower, the loan is not among the user's loans)
ClientRead(result) ==
  /\ client.pc \in ClientReads
  /\ result = "refuse" => client.pc # "getProposal"
  /\ client' =
       IF result = "ok" \/ (result = "reject" /\ client.pc = "getVotes")
       THEN ClientAdvance(client)
       ELSE ClientThrow(client, client.pc)
  /\ UNCHANGED <<mem, db, last, now, tx, reqs>>

\* `const tx = await saccoContract.method(...)`
ClientContractCall(ok) ==
  /\ client.pc = "contractCall"
  /\ client' = IF ok THEN ClientAdvance(client) ELSE ClientThrow(client, "contractCall")
  /\ UNCHANGED <<mem, db, last, now, tx, reqs>>

\* `const receipt = await tx.wait(); if (!receipt) throw ...`; requestLoan
\* syncs with the backend only `if (address)`
ClientWait(result) ==
  /\ client.pc = "wait"
  /\ client' =
       IF result # "receipt" THEN ClientThrow(client, "wait")
       ELSE IF client.op = "requestLoan" /\ ~client.address
       THEN [client EXCEPT !.receipt = TRUE, !.pc = "finally"]
       ELSE [ClientAdvance(client) EXCEPT !.receipt = TRUE]
  /\ UNCHANGED <<mem, db, last, now, tx, reqs>>

\* `await apiRequest("POST" | "PATCH", ...)`: the request is sent, then the
\* response resolves or rejects
ClientWrite(ok) ==
  /\ client.pc \in ClientWrites
  /\ client' =
       LET sent == [client EXCEPT !.sent = Append(client.sent, client.pc)]
       IN IF ok THEN ClientAdvance(sent) ELSE ClientThrow(sent, client.pc)
  /\ UNCHANGED <<mem, db, last, now, tx, reqs>>

\* getUserInfo: GET /api/users/:address; when it rejects, setIsLoading(true)
\* and the member is read from the contract
ClientGetUserInfo(result) ==
  /\ client.pc = "getUserInfo"
  /\ client' =
       CASE result = "grouped" -> ClientAdvance(client)
         [] result = "ungrouped" -> [client EXCEPT !.pc = "finally"]
         [] result = "reject" -> [client EXCEPT !.pc = "getMember", !.isLoading = TRUE]
  /\ UNCHANGED <<mem, db, last, now, tx, reqs>>

\* `await saccoContract.getMember(userAddress)` inside getUserInfo
ClientGetMember(result) ==
  /\ client.pc = "getMember"
  /\ client' =
       IF result = "reject"
       THEN ClientThrow([client EXCEPT !.isLoading = FALSE], "getUserInfo")
       ELSE [client EXCEPT !.pc = "postUser", !.grouped = (result = "grouped")]
  /\ UNCHANGED <<mem, db, last, now, tx, reqs>>

\* POST /api/users inside getUserInfo: its error is caught and logged, then
\* getUserInfo's finally block runs and the member is returned
ClientPostUser(ok) ==
  /\ client.pc = "postUser"
  /\ client' = [client EXCEPT !.sent = Append(client.sent, "postUser"),
                              !.isLoading = FALSE,
                              !.pc = IF client.grouped THEN "postActivity" ELSE "finally"]
  /\ UNCHANGED <<mem, db, last, now, tx, reqs>>

\* `finally { setIsLoading(false); }`, and the operation's promise settles
ClientFinally ==
  /\ client.pc = "finally"
  /\ client' = [client EXCEPT !.pc = "idle", !.isLoading = FALSE,
                              !.outcome = IF client.outcome = "none" THEN "resolved"
                                          ELSE client.outcome]
  /\ UNCHANGED <<mem, db, last, now, tx, reqs>>

NextClient ==
  \/ \E op \in ClientOps, contract \in BOOLEAN, address \in BOOLEAN :
       ClientStart(op, contract, address)
  \/ \E result \in {"ok", "reject", "refuse"} : ClientRead(result)
  \/ \E ok \in BOOLEAN : ClientContractCall(ok)
  \/ \E result \in {"receipt", "null", "reject"} : ClientWait(result)
  \/ \E ok \in BOOLEAN : ClientWrite(ok)
  \/ \E result \in {"grouped", "ungrouped", "reject"} : ClientGetUserInfo(result)
  \/ \E result \in {"grouped", "ungrouped", "reject"} : ClientGetMember(result)
  \/ \E ok \in BOOLEAN : ClientPostUser(ok)
  \/ ClientFinally

SpecClient == Init /\ [][NextClient]_vars

\* C30: in voteOnProposal, requestLoan, repayLoan and executeProposal a
\* backend write is sent only after the contract transaction returned a
\* receipt; when the contract call or the wait for the receipt fails no
\* backend write of the operation is sent; and isLoading is false when the
\* operation has ended.
C30_WriteAfterReceipt ==
  /\ client.sent # <<>> => client.receipt
  /\ client.failed \in {"contractCall", "wait"} => client.sent = <<>>
  /\ (client.pc = "idle" /\ client.outcome # "none") => ~client.isLoading

\* voteOnProposal has ended after the receipt, with the vote and the activity
\* sent to the backend and isLoading false
C30_Witness ==
  /\ client.op = "voteOnProposal"
  /\ client.pc = "idle"
  /\ client.outcome = "resolved"
  /\ client.receipt
  /\ client.sent = <<"postVote", "postActivity">>
  /\ ~client.isLoading

\* The wait for the receipt failed: the operation ended rejected, nothing was
\* sent and isLoading is false
C30_NoReceipt ==
  /\ client.op \in ClientOps
  /\ client.pc = "idle"
  /\ client.failed = "wait"
  /\ client.outcome = "rejected"
  /\ client.sent = <<>>
  /\ ~client.isLoading

====
